---- MODULE Spec2Model ----
(***************************************************************************)
(* State-machine model of the SFC controller's L2 CNP driver              *)
(* (controller/cnpdriver/l2driver/sfcctlr_l2_driver.go).                   *)
(*                                                                         *)
(* The driver object, the key-value store it writes to, the persisted id   *)
(* bindings, the IPAM tables and the queue of external-entity driver calls *)
(* are the state.  Every exported driver method is one action; the private *)
(* helpers are operators that take the driver state d (a record) and       *)
(* return the state after the helper ran, with d.err set when the Go code  *)
(* returns a non-nil error and d.ret holding the other return value.       *)
(*                                                                         *)
(* A nil pointer is the empty sequence <<>>, a non-nil one is <<object>>.  *)
(* MTU, rx-mode and IPv6 fields are carried through the code unchanged     *)
(* and are left out of the records.                                        *)
(***************************************************************************)
EXTENDS Integers, Sequences, FiniteSets, TLC

\* ------------------------------------------------------------------------
\* Bounds of the model
\* ------------------------------------------------------------------------

\* number of process restarts (fresh driver over the same store) explored
MaxRestarts == 1

\* number of reconcile cycles explored
MaxReconciles == 1

\* number of times the controller is given a configuration after the first
MaxLoads == 1

\* allocations from one counter of the sequencer
MaxAllocs == 3

\* a local variable of the source: v is computed once and named by K's
\* parameter in the statements that follow the assignment
Bind(v, K(_)) == K(v)

\* ------------------------------------------------------------------------
\* Declarative input (controller.proto) and the entities of the model
\* ------------------------------------------------------------------------

\* SfcType, controller.proto
SFC_NS_VXLAN == "SFC_NS_VXLAN"
SFC_NS_NIC_BD == "SFC_NS_NIC_BD"
SFC_NS_NIC_L2XCONN == "SFC_NS_NIC_L2XCONN"
SFC_NS_NIC_VRF == "SFC_NS_NIC_VRF"
SFC_EW_BD == "SFC_EW_BD"
SFC_EW_L2XCONN == "SFC_EW_L2XCONN"
SFC_EW_BD_L2FIB == "SFC_EW_BD_L2FIB"
SFC_EW_VRF_FIB == "SFC_EW_VRF_FIB"
SFC_EW_MEMIF == "SFC_EW_MEMIF"
SFC_EW_VETH == "SFC_EW_VETH"

\* SfcElementType, controller.proto
EXTERNAL_ENTITY == "EXTERNAL_ENTITY"
HOST_ENTITY == "HOST_ENTITY"
VPP_CONTAINER_MEMIF == "VPP_CONTAINER_MEMIF"
NON_VPP_CONTAINER_MEMIF == "NON_VPP_CONTAINER_MEMIF"
VPP_CONTAINER_AFP == "VPP_CONTAINER_AFP"
NON_VPP_CONTAINER_AFP == "NON_VPP_CONTAINER_AFP"

\* SystemParameters.starting_vlan_id default
StartingVlanId == 5000

\* an IPv4 address is [net, host, plen]; plen = 0 is an address written
\* without "/prefix"; NoIp is the empty string
NoIp == [net |-> "", host |-> 0, plen |-> 0]

Ip(net, host, plen) == [net |-> net, host |-> host, plen |-> plen]

\* message HostEntity
HostEntity(name, n, ethIf, route) ==
    [Name |-> name, EthIfName |-> ethIf, EthIpv4 |-> Ip("10.0.10", n, 24),
     LoopbackMacAddr |-> <<>>, LoopbackIpv4 |-> Ip("10.0.30", n, 24),
     VxlanTunnelIpv4 |-> Ip("10.0.20", n, 24),
     CreateVxlanStaticRoute |-> route]

\* message ExternalEntity; hasIf = FALSE leaves host_interface/host_vxlan nil
ExternalEntity(name, hasIf) ==
    [Name |-> name, HostInterface |-> hasIf, HostVxlan |-> hasIf,
     HostIfName |-> "GigabitEthernet2", HostIfIpv4 |-> Ip("10.0.10", 9, 24),
     SourceIpv4 |-> Ip("10.0.20", 9, 24)]

\* message SfcEntity.SfcElement
SfcElement(container, port, switch, type) ==
    [Container |-> container, PortLabel |-> port, EtcdVppSwitchKey |-> switch,
     Ipv4Addr |-> NoIp, MacAddr |-> <<>>, Type |-> type, VlanId |-> 0,
     L2FibMacs |-> <<>>, L3VrfRoutes |-> <<>>, L3ArpEntries |-> <<>>]

\* message L3VRFRoute
L3VRFRoute(vrf, description, dst, nextHop) ==
    [VrfId |-> vrf, Description |-> description, DstIpAddr |-> dst,
     NextHopAddr |-> nextHop]

\* message L3ArpEntry
L3ArpEntry(ip, mac) == [IpAddress |-> ip, PhysAddress |-> mac]

\* message SfcEntity
SfcEntity(name, type, elements) ==
    [Name |-> name, Type |-> type, SfcIpv4Prefix |-> "", VnfRepeatCount |-> 0,
     BdParms |-> "", Elements |-> elements]

HostNames == {"h1", "h2"}

Hosts ==
    [h \in HostNames |->
        IF h = "h1" THEN HostEntity("h1", 1, "Gig1", TRUE)
        ELSE HostEntity("h2", 2, "", FALSE)]

EENames == {"e1", "e2"}

ExtEntities ==
    [e \in EENames |->
        IF e = "e1" THEN ExternalEntity("e1", TRUE)
        ELSE ExternalEntity("e2", FALSE)]

\* ------------------------------------------------------------------------
\* Generic helpers
\* ------------------------------------------------------------------------

\* map assignment m[k] = v
MapPut(m, k, v) == [x \in (DOMAIN m) \cup {k} |-> IF x = k THEN v ELSE m[x]]

\* delete(m, k)
MapDel(m, k) == [x \in (DOMAIN m) \ {k} |-> m[x]]

EmptyMap == [x \in {} |-> 0]

Max(S) == IF S = {} THEN 0 ELSE CHOOSE x \in S : \A y \in S : y <= x

SeqToSet(s) == {s[i] : i \in DOMAIN s}

\* the largest uint32, 2^32 - 1: a uint32 is held as the 32-bit integer of
\* the same bits, so the values from 2^31 on are the negative ones
MaxUint32 == -1

\* cnpd.seq.X++ on a uint32 field: the largest value is followed by 0
Incr(x) == IF x = MaxUint32 THEN 0 ELSE x + 1

\* ------------------------------------------------------------------------
\* The driver state threaded through the helpers
\*   d.c      the sfcCtlrL2CNPDriver object
\*   d.db     the derived resources in the key-value store, by
\*            <<switch, kind, name>>
\*   d.ids    the persisted id bindings HEIDs, HE2EEIDs, HE2HEIDs, SFCIDs
\*   d.ipam   the IPAM tables (host-ids in use per prefix)
\*   d.ext    the calls made to the external-entity driver
\*   d.err    the Go error result, d.ret the other result
\*   d.ops    the writes issued by the running operation, in order
\*   d.nput   number of store puts attempted by the running operation
\*   d.failAt the put that the store rejects (0: none)
\* ------------------------------------------------------------------------

\* type sequencer, zero value
sequencer == [VLanID |-> 0, MemIfID |-> 0, MacInstanceID |-> 0, VethID |-> 0]

\* initReconcileCache: empty buffers
reconcileCacheType ==
    [res |-> EmptyMap, heIDs |-> EmptyMap, he2eeIDs |-> EmptyMap,
     he2heIDs |-> EmptyMap, sfcIDs |-> EmptyMap]

\* initL2CNPCache applied to c: empty state cache and entity cache; bdObjs
\* is the heap of bridge-domain objects the cache entries point to
initL2CNPCache(c) ==
    [c EXCEPT !.HEToEEs = EmptyMap, !.HEToHEs = EmptyMap,
              !.SFCToHEs = EmptyMap, !.HE = EmptyMap, !.SFCIFAddr = EmptyMap,
              !.EEs = {}, !.HEs = {}, !.SFCs = {}, !.bdObjs = EmptyMap]

\* NewSfcCtlrL2CNPDriver: a zero driver with initialised caches
NewSfcCtlrL2CNPDriver ==
    [seq |-> sequencer, SysParms |-> [StartingVlanId |-> 0],
     HEToEEs |-> EmptyMap, HEToHEs |-> EmptyMap, SFCToHEs |-> EmptyMap,
     HE |-> EmptyMap, SFCIFAddr |-> EmptyMap,
     EEs |-> {}, HEs |-> {}, SFCs |-> {}, bdObjs |-> EmptyMap,
     reconcileBefore |-> reconcileCacheType,
     reconcileAfter |-> reconcileCacheType,
     reconcileInProgress |-> FALSE]

EmptyIds ==
    [HEIDs |-> EmptyMap, HE2EEIDs |-> EmptyMap, HE2HEIDs |-> EmptyMap,
     SFCIDs |-> EmptyMap]

Errd(d) == [d EXCEPT !.err = TRUE]

Key(sw, kind, name) == <<sw, kind, name>>

WriteOp(d, sink, key, val) ==
    [sink |-> sink, key |-> key, val |-> val, rip |-> d.c.reconcileInProgress]

\* rc.Put().X(v).Send().ReceiveReply() and cnpd.db.Put(key, v): one put of
\* a derived resource into the store; it fails when the store rejects it
StorePut(d, sw, kind, name, val) ==
    LET n == d.nput + 1 IN
    IF n = d.failAt
    THEN [d EXCEPT !.nput = n, !.err = TRUE]
    ELSE [d EXCEPT !.nput = n,
                   !.db = MapPut(@, Key(sw, kind, name), val),
                   !.ops = Append(@, WriteOp(d, "store", Key(sw, kind, name), val))]

\* reconcileInterface / reconcileLinuxInterface / reconcileStaticRoute:
\* the record is buffered in the "after" set under its store key
reconcileResource(d, sw, kind, name, val) ==
    [d EXCEPT !.c.reconcileAfter.res = MapPut(@, Key(sw, kind, name), val),
              !.ops = Append(@, WriteOp(d, "after", Key(sw, kind, name), val))]

\* append every entry of ys to xs
AppendAll(xs, ys) == xs \o ys

\* bridgedDomainAssociateWithIfs, "only add the interface ... if it is not
\* already in the bridge's interface array": append to xs the entries of ys
\* that xs does not hold yet
RECURSIVE AppendMissing(_, _)
AppendMissing(xs, ys) ==
    IF ys = <<>> THEN xs
    ELSE AppendMissing(IF Head(ys) \in SeqToSet(xs) THEN xs
                       ELSE Append(xs, Head(ys)), Tail(ys))

\* reconcileBridgeDomain: the bridge is merged into the buffered record,
\* members accumulate across calls
reconcileBridgeDomain(d, sw, bd) ==
    LET k == Key(sw, "bd", bd.Name)
        old == d.c.reconcileAfter.res
    IN Bind(IF k \in DOMAIN old
               THEN [bd EXCEPT !.Interfaces = AppendMissing(old[k].Interfaces, bd.Interfaces)]
               ELSE bd, LAMBDA val :
       [d EXCEPT !.c.reconcileAfter.res = MapPut(@, k, val),
                 !.ops = Append(@, WriteOp(d, "after", k, val))])

\* a derived resource that the code buffers while reconcileInProgress
PutOrReconcile(d, sw, kind, name, val) ==
    IF d.c.reconcileInProgress
    THEN reconcileResource(d, sw, kind, name, val)
    ELSE StorePut(d, sw, kind, name, val)

\* ------------------------------------------------------------------------
\* Persisted id bindings (Datastore*IDsRetrieve / Datastore*IDsCreate)
\* ------------------------------------------------------------------------

\* Datastore<T>IDsRetrieve: <<binding>> or <<>> (nil)
DatastoreRetrieve(d, table, key) ==
    IF key \in DOMAIN d.ids[table] THEN <<d.ids[table][key]>> ELSE <<>>

\* Datastore<T>IDsCreate: put the binding; on success, while reconciling,
\* the caller copies it into reconcileAfter.<buf>.  d.err is the result.
DatastoreCreate(d, table, buf, key, val) ==
    LET n == d.nput + 1 IN
    IF n = d.failAt
    THEN [d EXCEPT !.nput = n, !.err = TRUE]
    ELSE LET d1 == [d EXCEPT !.nput = n,
                             !.ids[table] = MapPut(@, key, val),
                             !.ops = Append(@, WriteOp(d, "ids", <<table, key>>, val))]
         IN IF d.c.reconcileInProgress
            THEN [d1 EXCEPT !.c.reconcileAfter[buf] = MapPut(@, key, val)]
            ELSE d1

\* message SFCIDs
SFCIDsRec(ipID, macAddrID, memifID, vethID) ==
    [IpId |-> ipID, MacAddrId |-> macAddrID, MemifId |-> memifID, VethId |-> vethID]

\* ------------------------------------------------------------------------
\* Resource builders
\* ------------------------------------------------------------------------

\* stripSlashAndSubnetIpv4Address: drop the "/prefix" part
stripSlashAndSubnetIpv4Address(ip) == [ip EXCEPT !.plen = 0]

\* formatMacAddress: "02:" followed by the id's octets 4..0, big endian
formatMacAddress(id) ==
    <<2, (id \div 16777216) \div 256, (id \div 16777216) % 256,
      (id \div 65536) % 256, (id \div 256) % 256, id % 256>>

NoMac == <<>>

\* interfaces.Interfaces_Interface with every optional part empty
Interface(name, type) ==
    [Name |-> name, Type |-> type, Enabled |-> TRUE, PhysAddress |-> NoMac,
     IpAddress |-> NoIp, SrcAddress |-> NoIp, DstAddress |-> NoIp, Vni |-> 0,
     MemifId |-> 0, Master |-> FALSE, SocketFilename |-> "",
     HostIfName |-> ""]

\* the result d of a helper that returned an error or panicked
Failed(d) == d.err \/ d.panic

\* a nil pointer dereference: the goroutine panics
Panic(d) == [d EXCEPT !.panic = TRUE]

\* vxLanCreate: ret is the interface, <<>> on error
vxLanCreate(d, etcdVppSwitchKey, ifname, vni, srcStr, dstStr) ==
    Bind([Interface(ifname, "VXLAN_TUNNEL") EXCEPT
                      !.SrcAddress = stripSlashAndSubnetIpv4Address(srcStr),
                      !.DstAddress = stripSlashAndSubnetIpv4Address(dstStr),
                      !.Vni = vni], LAMBDA iface :
    Bind(PutOrReconcile(d, etcdVppSwitchKey, "interface", ifname, iface), LAMBDA d1 :
       [d1 EXCEPT !.ret = IF d1.err THEN <<>> ELSE <<iface>>]))

\* memIfCreate: ret is the interface, <<>> on error
memIfCreate(d, etcdPrefix, memIfName, memifID, isMaster, masterContainer, ipv4, macAddress) ==
    Bind([Interface(memIfName, "MEMORY_INTERFACE") EXCEPT
                      !.PhysAddress = macAddress, !.IpAddress = ipv4,
                      !.MemifId = memifID, !.Master = isMaster,
                      !.SocketFilename = "/tmp/memif_" \o masterContainer \o ".sock"],
         LAMBDA memIf :
    Bind(PutOrReconcile(d, etcdPrefix, "interface", memIfName, memIf), LAMBDA d1 :
       [d1 EXCEPT !.ret = IF d1.err THEN <<>> ELSE <<memIf>>]))

\* createEthernet
createEthernet(d, etcdPrefix, ifname, ipv4, macAddr) ==
    Bind([Interface(ifname, "ETHERNET_CSMACD") EXCEPT
                      !.PhysAddress = macAddr, !.IpAddress = ipv4], LAMBDA iface :
       PutOrReconcile(d, etcdPrefix, "interface", ifname, iface))

\* afPacketCreate: ret is the interface, <<>> on error
afPacketCreate(d, etcdPrefix, ifName, hostIfName, ipv4, macAddress) ==
    Bind([Interface(ifName, "AF_PACKET_INTERFACE") EXCEPT
                      !.PhysAddress = macAddress, !.IpAddress = ipv4,
                      !.HostIfName = hostIfName], LAMBDA afPacketIf :
    Bind(PutOrReconcile(d, etcdPrefix, "interface", ifName, afPacketIf), LAMBDA d1 :
       [d1 EXCEPT !.ret = IF d1.err THEN <<>> ELSE <<afPacketIf>>]))

\* createLoopback
createLoopback(d, etcdPrefix, ifname, physAddr, ipv4) ==
    Bind([Interface(ifname, "SOFTWARE_LOOPBACK") EXCEPT
                      !.PhysAddress = physAddr, !.IpAddress = ipv4], LAMBDA iface :
       PutOrReconcile(d, etcdPrefix, "interface", ifname, iface))

\* vEthIfCreate
vEthIfCreate(d, etcdPrefix, ifname, hostIfName, peerIfName, container, physAddr, ipv4) ==
    LET linuxif == [Name |-> ifname, Type |-> "VETH", Enabled |-> TRUE,
                    PhysAddress |-> physAddr, HostIfName |-> hostIfName,
                    IpAddress |-> ipv4, Microservice |-> container,
                    PeerIfName |-> peerIfName]
    IN PutOrReconcile(d, etcdPrefix, "linuxif", ifname, linuxif)

\* store key of a static route: vrf, destination, next hop
RouteName(sr) == <<sr.VrfId, sr.DstIpAddr, sr.NextHopAddr>>

\* createStaticRoute: ret is the route, <<>> on error
createStaticRoute(d, vrfID, etcdPrefix, description, destIpv4AddrStr, netHopIpv4Addr, outGoingIf) ==
    LET sr == [VrfId |-> vrfID, Description |-> description,
               DstIpAddr |-> destIpv4AddrStr,
               NextHopAddr |-> stripSlashAndSubnetIpv4Address(netHopIpv4Addr),
               OutgoingInterface |-> outGoingIf]
    IN Bind(PutOrReconcile(d, etcdPrefix, "route", RouteName(sr), sr), LAMBDA d1 :
       [d1 EXCEPT !.ret = IF d1.err THEN <<>> ELSE <<sr>>])

\* createStaticArpEntry: always put with cnpd.db.Put under
\* utils.ArpEntryKey(etcdPrefix, outGoingIf, destIPAddress)
createStaticArpEntry(d, etcdPrefix, destIPAddress, physAddress, outGoingIf) ==
    Bind([Interface |-> outGoingIf, Static |-> TRUE,
               IpAddress |-> destIPAddress, PhysAddress |-> physAddress], LAMBDA ae :
       StorePut(d, etcdPrefix, "arp", <<outGoingIf, destIPAddress>>, ae))

\* createXConnect: always put into the store; keyed by the receive interface
createXConnect(d, etcdPrefix, rxIf, txIf) ==
    StorePut(d, etcdPrefix, "xconnect", rxIf,
             [ReceiveInterface |-> rxIf, TransmitInterface |-> txIf])

\* createXConnectPair
createXConnectPair(d, etcdPrefix, if1, if2) ==
    Bind(createXConnect(d, etcdPrefix, if1, if2), LAMBDA d1 :
       IF d1.err THEN d1 ELSE createXConnect(d1, etcdPrefix, if2, if1))

\* createL2FibEntry: always put into the store
createL2FibEntry(d, etcdPrefix, bdName, destMacAddr, outGoingIf) ==
    StorePut(d, etcdPrefix, "fib", <<bdName, destMacAddr>>,
             [BridgeDomain |-> bdName, PhysAddress |-> destMacAddr,
              Action |-> "FORWARD", OutgoingInterface |-> outGoingIf,
              StaticConfig |-> TRUE])

\* address of a bridge-domain object on the heap
BdRef(sw, bdName) == <<sw, bdName>>

\* bridgedDomainCreateWithIfs: ret is the pointer to the new bridge, <<>>
\* (nil) on error
bridgedDomainCreateWithIfs(d, etcdVppSwitchKey, bdName, ifs, bdParms) ==
    LET bd == [Name |-> bdName, Parms |-> bdParms, Interfaces |-> ifs]
    IN Bind(IF d.c.reconcileInProgress
              THEN reconcileBridgeDomain(d, etcdVppSwitchKey, bd)
              ELSE StorePut(d, etcdVppSwitchKey, "bd", bdName, bd), LAMBDA d1 :
       IF d1.err THEN [d1 EXCEPT !.ret = <<>>]
       ELSE [d1 EXCEPT !.c.bdObjs = MapPut(@, BdRef(etcdVppSwitchKey, bdName), bd),
                       !.ret = <<BdRef(etcdVppSwitchKey, bdName)>>])

\* bridgedDomainAssociateWithIfs: bd is a pointer; the interfaces the
\* bridge does not hold yet are appended to the object, which is then written
bridgedDomainAssociateWithIfs(d, etcdVppSwitchKey, bd, ifs) ==
    IF bd = <<>> THEN Panic(d)
    ELSE LET obj == d.c.bdObjs[bd[1]]
         IN Bind([obj EXCEPT !.Interfaces = AppendMissing(@, ifs)], LAMBDA new :
         LET d1 == [d EXCEPT !.c.bdObjs[bd[1]] = new]
         IN IF d.c.reconcileInProgress
            THEN reconcileBridgeDomain(d1, etcdVppSwitchKey, new)
            ELSE StorePut(d1, etcdVppSwitchKey, "bd", new.Name, new))

\* ------------------------------------------------------------------------
\* Host and edge wiring
\* ------------------------------------------------------------------------

\* SetSystemParameters
SetSystemParametersOp(d, sp) ==
    LET d1 == [d EXCEPT !.c.SysParms = sp]
    IN IF d1.c.seq.VLanID = 0
       THEN [d1 EXCEPT !.c.seq.VLanID = sp.StartingVlanId - 1]
       ELSE d1

\* heToEEStateType / heToHEStateType with vlanIf, bd and l3Route nil
EdgeState == [vlanIf |-> <<>>, bd |-> <<>>, l3Route |-> <<>>]

\* heStateType with ewBD and ewBDL2Fib nil
heStateType == [ewBD |-> <<>>, ewBDL2Fib |-> <<>>]

\* the host pair is recorded afresh, whatever the cache held for it
WireHostEntityToDestinationHostEntityAfresh(d, sh, dh) ==
    LET d1 == [d EXCEPT !.c.HEs = @ \cup {sh, dh}]
        d2 == IF sh \in DOMAIN d1.c.HEToHEs THEN d1
              ELSE [d1 EXCEPT !.c.HEToHEs = MapPut(@, sh, EmptyMap)]
    IN [d2 EXCEPT !.c.HEToHEs[sh] = MapPut(@, dh, EdgeState)]

\* WireHostEntityToDestinationHostEntity
WireHostEntityToDestinationHostEntityOp(d, sh, dh) ==
    LET d1 == [d EXCEPT !.c.HEs = @ \cup {sh, dh}]
        d2 == IF sh \in DOMAIN d1.c.HEToHEs THEN d1
              ELSE [d1 EXCEPT !.c.HEToHEs = MapPut(@, sh, EmptyMap)]
    IN IF dh \in DOMAIN d2.c.HEToHEs[sh] THEN d2
       ELSE [d2 EXCEPT !.c.HEToHEs[sh] = MapPut(@, dh, EdgeState)]

\* the edge is recorded afresh, whatever the cache held for it
WireHostEntityToExternalEntityAfresh(d, he, ee) ==
    LET d1 == [d EXCEPT !.c.HEs = @ \cup {he}, !.c.EEs = @ \cup {ee}]
    IN IF ~ExtEntities[ee].HostInterface \/ ~ExtEntities[ee].HostVxlan
       THEN Errd(d1)
       ELSE LET d2 == IF he \in DOMAIN d1.c.HEToEEs THEN d1
                      ELSE [d1 EXCEPT !.c.HEToEEs = MapPut(@, he, EmptyMap)]
            IN [d2 EXCEPT !.c.HEToEEs[he] = MapPut(@, ee, EdgeState)]

\* WireHostEntityToExternalEntity
WireHostEntityToExternalEntityOp(d, he, ee) ==
    LET d1 == [d EXCEPT !.c.HEs = @ \cup {he}, !.c.EEs = @ \cup {ee}]
    IN IF ~ExtEntities[ee].HostInterface \/ ~ExtEntities[ee].HostVxlan
       THEN Errd(d1)
       ELSE LET d2 == IF he \in DOMAIN d1.c.HEToEEs THEN d1
                      ELSE [d1 EXCEPT !.c.HEToEEs = MapPut(@, he, EmptyMap)]
            IN IF ee \in DOMAIN d2.c.HEToEEs[he] THEN d2
               ELSE [d2 EXCEPT !.c.HEToEEs[he] = MapPut(@, ee, EdgeState)]

\* the loopback part of WireInternalsForHostEntity: allocate or reuse the
\* MAC instance id, create the loopback; ret is loopbackMacAddrID
HostLoopback(d, he) ==
    IF he.LoopbackIpv4 = NoIp THEN [d EXCEPT !.ret = 0]
    ELSE LET heID == DatastoreRetrieve(d, "HEIDs", he.Name)
             alloc == he.LoopbackMacAddr = <<>> /\ (heID = <<>> \/ heID[1] = 0)
             d1 == IF alloc THEN [d EXCEPT !.c.seq.MacInstanceID = Incr(@)] ELSE d
             id == IF he.LoopbackMacAddr # <<>> THEN 0
                   ELSE IF alloc THEN d1.c.seq.MacInstanceID ELSE heID[1]
             mac == IF he.LoopbackMacAddr # <<>> THEN he.LoopbackMacAddr
                    ELSE formatMacAddress(id)
         IN Bind(createLoopback(d1, he.Name, "IF_LOOPBACK_H_" \o he.Name, mac,
                                  he.LoopbackIpv4), LAMBDA d2 :
            [d2 EXCEPT !.ret = id])

\* the two default bridges of WireInternalsForHostEntity and the HEIDs
\* binding; a failed bridge put makes the code read bd.Name of a nil bridge
HostBridges(d, he, loopbackMacAddrID) ==
    Bind(bridgedDomainCreateWithIfs(d, he.Name, "BD_INTERNAL_EW_" \o he.Name,
                                         <<>>, "dynamic"), LAMBDA d1 :
       IF d1.err THEN Panic(d1) ELSE
       LET d2 == [d1 EXCEPT !.c.HE[he.Name].ewBD = d1.ret]
       IN Bind(bridgedDomainCreateWithIfs(d2, he.Name,
                     "BD_INTERNAL_EW_L2FIB_" \o he.Name, <<>>, "static"), LAMBDA d3 :
          IF d3.err THEN Panic(d3) ELSE
          LET d4 == [d3 EXCEPT !.c.HE[he.Name].ewBDL2Fib = d3.ret]
          IN DatastoreCreate(d4, "HEIDs", "heIDs", he.Name, loopbackMacAddrID)))

\* WireInternalsForHostEntity
WireInternalsForHostEntityOp(d, h) ==
    Bind(Hosts[h], LAMBDA he :
    LET d1 == [d EXCEPT !.c.HEs = @ \cup {h}]
    IN IF h \in DOMAIN d1.c.HE THEN d1 ELSE
       LET d2 == [d1 EXCEPT !.c.HE = MapPut(@, h, heStateType)]
       IN Bind(IF he.EthIfName # ""
                 THEN createEthernet(d2, he.Name, he.EthIfName, he.EthIpv4, NoMac)
                 ELSE d2, LAMBDA d3 :
          IF d3.err THEN d3 ELSE
          Bind(HostLoopback(d3, he), LAMBDA d4 :
             IF d4.err THEN d4 ELSE HostBridges(d4, he, d4.ret))))

\* the counter's current value instead of the tunnel's VNI
tmpVlanidOfSequencer(d, heToEEState) == d.c.seq.VLanID

\* wireExternalEntityToHostEntity, "use the same id as the reverse
\* direction": the VNI of the host-to-ee tunnel
tmpVlanid(d, heToEEState) == heToEEState.vlanIf[1].Vni

\* wireExternalEntityToHostEntity: the ee-to-host static route, then the
\* call to the external-entity driver with the VNI of the host-to-ee tunnel
wireExternalEntityToHostEntity(d, eeName, heName) ==
    IF heName \notin DOMAIN d.c.HEToEEs THEN d
    ELSE IF eeName \notin DOMAIN d.c.HEToEEs[heName] THEN d
    ELSE LET heToEEState == d.c.HEToEEs[heName][eeName]
         IN Bind(ExtEntities[eeName], LAMBDA ee :
         Bind(Hosts[heName], LAMBDA he :
            IF heToEEState.vlanIf = <<>> THEN Panic(d) ELSE
            LET vni == tmpVlanid(d, heToEEState)
            IN Bind(createStaticRoute(d, 0, ee.Name,
                          "IF_STATIC_ROUTE_E2H_" \o he.Name, he.VxlanTunnelIpv4,
                          he.EthIpv4, ee.HostIfName), LAMBDA d1 :
               IF d1.err THEN d1
               ELSE [d1 EXCEPT !.ext = Append(@, [ee |-> eeName, he |-> heName,
                                                  vni |-> vni])])))

\* ------------------------------------------------------------------------
\* North-south VXLAN
\* ------------------------------------------------------------------------

\* the tunnel of the edge is created on every call
ExtEntityVxlanAlways(d, hostName, eeName, vlanID) ==
    Bind(Hosts[hostName], LAMBDA he :
    Bind(ExtEntities[eeName], LAMBDA ee :
    LET he2eeID == DatastoreRetrieve(d, "HE2EEIDs", <<he.Name, ee.Name>>)
        alloc == vlanID = 0 /\ (he2eeID = <<>> \/ he2eeID[1] = 0)
        d1 == IF alloc THEN [d EXCEPT !.c.seq.VLanID = Incr(@)] ELSE d
        vni == IF vlanID # 0 THEN vlanID
               ELSE IF alloc THEN d1.c.seq.VLanID ELSE he2eeID[1]
    IN Bind(vxLanCreate(d1, he.Name, "IF_VXLAN_H2E_" \o he.Name \o "_" \o ee.Name,
                          vni, he.VxlanTunnelIpv4, ee.SourceIpv4), LAMBDA d2 :
       IF d2.err THEN d2 ELSE
       LET d3 == [d2 EXCEPT !.c.HEToEEs[hostName][eeName].vlanIf = d2.ret]
       IN Bind(DatastoreCreate(d3, "HE2EEIDs", "he2eeIDs", <<he.Name, ee.Name>>, vni),
            LAMBDA d4 :
          [d4 EXCEPT !.err = FALSE]))))

\* createVxLANAndBridgeToExtEntity, "if heToEEState.vlanIf == nil": the VNI
\* is the partner's vlan_id, else the persisted one, else a new one; the
\* tunnel is written and the binding persisted (its error is dropped)
ExtEntityVxlan(d, hostName, eeName, vlanID) ==
    IF d.c.HEToEEs[hostName][eeName].vlanIf # <<>> THEN d ELSE
    Bind(Hosts[hostName], LAMBDA he :
    Bind(ExtEntities[eeName], LAMBDA ee :
    LET he2eeID == DatastoreRetrieve(d, "HE2EEIDs", <<he.Name, ee.Name>>)
        alloc == vlanID = 0 /\ (he2eeID = <<>> \/ he2eeID[1] = 0)
        d1 == IF alloc THEN [d EXCEPT !.c.seq.VLanID = Incr(@)] ELSE d
        vni == IF vlanID # 0 THEN vlanID
               ELSE IF alloc THEN d1.c.seq.VLanID ELSE he2eeID[1]
    IN Bind(vxLanCreate(d1, he.Name, "IF_VXLAN_H2E_" \o he.Name \o "_" \o ee.Name,
                          vni, he.VxlanTunnelIpv4, ee.SourceIpv4), LAMBDA d2 :
       IF d2.err THEN d2 ELSE
       LET d3 == [d2 EXCEPT !.c.HEToEEs[hostName][eeName].vlanIf = d2.ret]
       IN Bind(DatastoreCreate(d3, "HE2EEIDs", "he2eeIDs", <<he.Name, ee.Name>>, vni),
            LAMBDA d4 :
          [d4 EXCEPT !.err = FALSE]))))

\* the route of the edge is left for later
ExtEntityRouteSkipped(d, hostName, eeName) == d

\* createVxLANAndBridgeToExtEntity, "if heToEEState.l3Route == nil"
ExtEntityRoute(d, hostName, eeName) ==
    IF d.c.HEToEEs[hostName][eeName].l3Route # <<>> THEN d ELSE
    Bind(Hosts[hostName], LAMBDA he :
    Bind(ExtEntities[eeName], LAMBDA ee :
       IF ~he.CreateVxlanStaticRoute THEN d ELSE
       Bind(createStaticRoute(d, 0, he.Name, "IF_STATIC_ROUTE_H2E_" \o ee.Name,
                                   ee.SourceIpv4, ee.HostIfIpv4, he.EthIfName), LAMBDA d1 :
          IF d1.err THEN d1
          ELSE [d1 EXCEPT !.c.HEToEEs[hostName][eeName].l3Route = d1.ret])))

\* createVxLANAndBridgeToExtEntity, "if heToEEState.bd == nil": the bridge
\* with the tunnel as member, then the external entity is wired to the
\* host (the result of that call is dropped)
ExtEntityBridge(d, hostName, eeName) ==
    IF d.c.HEToEEs[hostName][eeName].bd # <<>> THEN d ELSE
    Bind(Hosts[hostName], LAMBDA he :
    Bind(ExtEntities[eeName], LAMBDA ee :
    LET vlanIf == d.c.HEToEEs[hostName][eeName].vlanIf
    IN IF vlanIf = <<>> THEN Panic(d) ELSE
       Bind(bridgedDomainCreateWithIfs(d, he.Name,
                     "BD_H2E_" \o he.Name \o "_" \o ee.Name, <<vlanIf[1].Name>>, "dynamic"),
            LAMBDA d1 :
          IF d1.err THEN Panic(d1) ELSE
          LET d2 == [d1 EXCEPT !.c.HEToEEs[hostName][eeName].bd = d1.ret]
          IN Bind(wireExternalEntityToHostEntity(d2, eeName, hostName), LAMBDA d3 :
             [d3 EXCEPT !.err = FALSE]))))

\* createVxLANAndBridgeToExtEntity: ret is the bridge of the edge
createVxLANAndBridgeToExtEntity(d, sfc, hostName, eeName, vlanID) ==
    IF hostName \notin DOMAIN d.c.HEToEEs THEN [Errd(d) EXCEPT !.ret = <<>>]
    ELSE IF eeName \notin DOMAIN d.c.HEToEEs[hostName] THEN [Errd(d) EXCEPT !.ret = <<>>]
    ELSE Bind(ExtEntityVxlan(d, hostName, eeName, vlanID), LAMBDA d1 :
            IF Failed(d1) THEN [d1 EXCEPT !.ret = <<>>] ELSE
            Bind(ExtEntityRoute(d1, hostName, eeName), LAMBDA d2 :
               IF Failed(d2) THEN [d2 EXCEPT !.ret = <<>>] ELSE
               Bind(ExtEntityBridge(d2, hostName, eeName), LAMBDA d3 :
                  IF Failed(d3) THEN [d3 EXCEPT !.ret = <<>>]
                  ELSE [d3 EXCEPT !.ret = d3.c.HEToEEs[hostName][eeName].bd])))

\* the persisted VNI that createVxLANAndBridgeToDestHost looks up: it reads
\* the host-to-ee table under the key (source host, destination host)
DestHostPersistedVlan(d, shName, dhName) ==
    DatastoreRetrieve(d, "HE2EEIDs", <<shName, dhName>>)

\* createVxLANAndBridgeToDestHost, "if heToHEState.vlanIf == nil"
DestHostVxlan(d, shName, dhName, vlanID) ==
    IF d.c.HEToHEs[shName][dhName].vlanIf # <<>> THEN d ELSE
    Bind(Hosts[shName], LAMBDA sh :
    Bind(Hosts[dhName], LAMBDA dh :
    LET he2eeID == DestHostPersistedVlan(d, sh.Name, dh.Name)
        alloc == vlanID = 0 /\ (he2eeID = <<>> \/ he2eeID[1] = 0)
        d1 == IF alloc THEN [d EXCEPT !.c.seq.VLanID = Incr(@)] ELSE d
        vni == IF vlanID # 0 THEN vlanID
               ELSE IF alloc THEN d1.c.seq.VLanID ELSE he2eeID[1]
    IN Bind(vxLanCreate(d1, sh.Name, "IF_VXLAN_H2H_" \o sh.Name \o "_" \o dh.Name,
                          vni, sh.VxlanTunnelIpv4, dh.VxlanTunnelIpv4), LAMBDA d2 :
       IF d2.err THEN d2 ELSE
       LET d3 == [d2 EXCEPT !.c.HEToHEs[shName][dhName].vlanIf = d2.ret]
       IN Bind(DatastoreCreate(d3, "HE2HEIDs", "he2heIDs", <<sh.Name, dh.Name>>, vni),
            LAMBDA d4 :
          [d4 EXCEPT !.err = FALSE]))))

\* the route is written whether or not the host asks for one
DestHostRouteUnconditional(d, shName, dhName) ==
    IF d.c.HEToHEs[shName][dhName].l3Route # <<>> THEN d ELSE
    Bind(Hosts[shName], LAMBDA sh :
    Bind(Hosts[dhName], LAMBDA dh :
       Bind(createStaticRoute(d, 0, sh.Name, "IF_STATIC_ROUTE_H2H_" \o dh.Name,
                                   dh.VxlanTunnelIpv4, dh.EthIpv4, sh.EthIfName), LAMBDA d1 :
          IF d1.err THEN d1
          ELSE [d1 EXCEPT !.c.HEToHEs[shName][dhName].l3Route = d1.ret])))

\* createVxLANAndBridgeToDestHost, "if heToHEState.l3Route == nil"
DestHostRoute(d, shName, dhName) ==
    IF d.c.HEToHEs[shName][dhName].l3Route # <<>> THEN d ELSE
    Bind(Hosts[shName], LAMBDA sh :
    Bind(Hosts[dhName], LAMBDA dh :
       IF ~sh.CreateVxlanStaticRoute THEN d ELSE
       Bind(createStaticRoute(d, 0, sh.Name, "IF_STATIC_ROUTE_H2H_" \o dh.Name,
                                   dh.VxlanTunnelIpv4, dh.EthIpv4, sh.EthIfName), LAMBDA d1 :
          IF d1.err THEN d1
          ELSE [d1 EXCEPT !.c.HEToHEs[shName][dhName].l3Route = d1.ret])))

\* createVxLANAndBridgeToDestHost, "if heToHEState.bd == nil"
DestHostBridge(d, shName, dhName) ==
    IF d.c.HEToHEs[shName][dhName].bd # <<>> THEN d ELSE
    Bind(Hosts[shName], LAMBDA sh :
    Bind(Hosts[dhName], LAMBDA dh :
    LET vlanIf == d.c.HEToHEs[shName][dhName].vlanIf
    IN IF vlanIf = <<>> THEN Panic(d) ELSE
       Bind(bridgedDomainCreateWithIfs(d, sh.Name,
                     "BD_H2H_" \o sh.Name \o "_" \o dh.Name, <<vlanIf[1].Name>>, "dynamic"),
            LAMBDA d1 :
          IF d1.err THEN Panic(d1)
          ELSE [d1 EXCEPT !.c.HEToHEs[shName][dhName].bd = d1.ret])))

\* createVxLANAndBridgeToDestHost: ret is the bridge of the edge
createVxLANAndBridgeToDestHost(d, sfc, shName, dhName, vlanID) ==
    IF shName \notin DOMAIN d.c.HEToHEs THEN [Errd(d) EXCEPT !.ret = <<>>]
    ELSE IF dhName \notin DOMAIN d.c.HEToHEs[shName] THEN [Errd(d) EXCEPT !.ret = <<>>]
    ELSE Bind(DestHostVxlan(d, shName, dhName, vlanID), LAMBDA d1 :
            IF Failed(d1) THEN [d1 EXCEPT !.ret = <<>>] ELSE
            Bind(DestHostRoute(d1, shName, dhName), LAMBDA d2 :
               IF Failed(d2) THEN [d2 EXCEPT !.ret = <<>>] ELSE
               Bind(DestHostBridge(d2, shName, dhName), LAMBDA d3 :
                  IF Failed(d3) THEN [d3 EXCEPT !.ret = <<>>]
                  ELSE [d3 EXCEPT !.ret = d3.c.HEToHEs[shName][dhName].bd])))

\* ------------------------------------------------------------------------
\* IPAM (utils/ipam): per prefix, the host-ids in use.  A prefix is the
\* network part of a /24; host-id 0 and the broadcast id are reserved.
\* ------------------------------------------------------------------------

\* highest host-id of a /24
HostIdMax == 254

IpamUsed(d, prefix) == IF prefix \in DOMAIN d.ipam THEN d.ipam[prefix] ELSE {}

\* ipam.AllocateFromSubnet: ret is <<address, id>>, the lowest unused id
AllocateFromSubnet(d, prefix) ==
    LET free == (1..HostIdMax) \ IpamUsed(d, prefix)
    IN IF free = {} THEN Errd(d)
       ELSE LET id == CHOOSE x \in free : \A y \in free : x <= y
            IN [d EXCEPT !.ipam = MapPut(@, prefix, IpamUsed(d, prefix) \cup {id}),
                         !.ret = <<Ip(prefix, id, 24), id>>]

\* ipam.SetIpIDInSubnet: ret is the address of the id, which is marked used
SetIpIDInSubnet(d, prefix, id) ==
    IF id < 1 \/ id > HostIdMax THEN Errd(d)
    ELSE [d EXCEPT !.ipam = MapPut(@, prefix, IpamUsed(d, prefix) \cup {id}),
                   !.ret = Ip(prefix, id, 24)]

\* ipam.SetIpAddrIfInsideSubnet: marks the host-id of an address inside
\* the prefix, ignores any other address
SetIpAddrIfInsideSubnet(d, prefix, addr) ==
    IF addr.net = prefix /\ addr.host \in 1..HostIdMax
    THEN [d EXCEPT !.ipam = MapPut(@, prefix, IpamUsed(d, prefix) \cup {addr.host})]
    ELSE d

\* ------------------------------------------------------------------------
\* Container attachment: memif pairs and veth/af-packet pairs
\* ------------------------------------------------------------------------

\* the IPv4 part of createMemIfPair / createAFPacketVEthPair: ret is
\* <<ipv4Address, ipID>>
ElementIpv4(d, sfc, e, sfcID, generateAddresses) ==
    IF e.Ipv4Addr = NoIp
    THEN IF generateAddresses /\ sfc.SfcIpv4Prefix # ""
         THEN IF sfcID = <<>> \/ sfcID[1].IpId = 0
              THEN AllocateFromSubnet(d, sfc.SfcIpv4Prefix)
              ELSE Bind(SetIpIDInSubnet(d, sfc.SfcIpv4Prefix, sfcID[1].IpId), LAMBDA d1 :
                      IF d1.err THEN d1
                      ELSE [d1 EXCEPT !.ret = <<d1.ret, sfcID[1].IpId>>])
         ELSE [d EXCEPT !.ret = <<NoIp, 0>>]
    ELSE LET ipv4Address == IF e.Ipv4Addr.plen # 0 THEN e.Ipv4Addr
                            ELSE [e.Ipv4Addr EXCEPT !.plen = 24]
         IN Bind(IF sfc.SfcIpv4Prefix # ""
                   THEN SetIpAddrIfInsideSubnet(d, sfc.SfcIpv4Prefix,
                            stripSlashAndSubnetIpv4Address(e.Ipv4Addr))
                   ELSE d, LAMBDA d1 :
            [d1 EXCEPT !.ret = <<ipv4Address, 0>>])

\* the MAC part of createMemIfPair / createAFPacketVEthPair: ret is
\* <<macAddress, macAddrID>>
ElementMac(d, e, sfcID, generateAddresses) ==
    IF e.MacAddr # <<>> THEN [d EXCEPT !.ret = <<e.MacAddr, 0>>]
    ELSE IF ~generateAddresses THEN [d EXCEPT !.ret = <<NoMac, 0>>]
    ELSE IF sfcID = <<>> \/ sfcID[1].MacAddrId = 0
         THEN LET d1 == [d EXCEPT !.c.seq.MacInstanceID = Incr(@)]
              IN [d1 EXCEPT !.ret = <<formatMacAddress(d1.c.seq.MacInstanceID),
                                      d1.c.seq.MacInstanceID>>]
         ELSE [d EXCEPT !.ret = <<formatMacAddress(sfcID[1].MacAddrId), sfcID[1].MacAddrId>>]

\* setSfcInterfaceIPAndMac
setSfcInterfaceIPAndMac(d, container, port, ip, mac) ==
    [d EXCEPT !.c.SFCIFAddr = MapPut(@, container \o "/" \o port,
                                     [ipAddress |-> ip, macAddress |-> mac])]

SfcIdKey(sfcName, container, port) == <<sfcName, container, port>>

\* the memif pair takes a new memif id whatever id is bound to the element
createMemIfPairFreshId(d, sfc, hostName, e, generateAddresses) ==
    LET sfcID == DatastoreRetrieve(d, "SFCIDs", SfcIdKey(sfc.Name, e.Container, e.PortLabel))
        alloc == TRUE
        d1 == IF alloc THEN [d EXCEPT !.c.seq.MemIfID = Incr(@)] ELSE d
        memifID == IF alloc THEN d1.c.seq.MemIfID ELSE sfcID[1].MemifId
    IN Bind(ElementIpv4(d1, sfc, e, sfcID, generateAddresses), LAMBDA d2 :
       IF d2.err THEN [d2 EXCEPT !.ret = ""] ELSE
       LET ip == d2.ret
       IN Bind(ElementMac(d2, e, sfcID, generateAddresses), LAMBDA d3 :
       LET mac == d3.ret
       IN Bind(memIfCreate(d3, e.Container, e.PortLabel, memifID, FALSE,
                             e.EtcdVppSwitchKey, ip[1], mac[1]), LAMBDA d4 :
          IF d4.err THEN [d4 EXCEPT !.ret = ""] ELSE
          LET memIfName == "IF_MEMIF_VSWITCH_" \o e.Container \o "_" \o e.PortLabel
          IN Bind(memIfCreate(d4, e.EtcdVppSwitchKey, memIfName, memifID, TRUE,
                                e.EtcdVppSwitchKey, NoIp, NoMac), LAMBDA d5 :
             IF d5.err THEN Panic(d5) ELSE
             Bind(DatastoreCreate(d5, "SFCIDs", "sfcIDs",
                           SfcIdKey(sfc.Name, e.Container, e.PortLabel),
                           SFCIDsRec(ip[2], mac[2], memifID, 0)), LAMBDA d6 :
             Bind(setSfcInterfaceIPAndMac(d6, e.Container, e.PortLabel, ip[1], mac[1]),
                  LAMBDA d7 :
                [d7 EXCEPT !.ret = memIfName]))))))

\* createMemIfPair: ret is the name of the vswitch-end memif
createMemIfPair(d, sfc, hostName, e, generateAddresses) ==
    LET sfcID == DatastoreRetrieve(d, "SFCIDs", SfcIdKey(sfc.Name, e.Container, e.PortLabel))
        alloc == sfcID = <<>> \/ sfcID[1].MemifId = 0
        d1 == IF alloc THEN [d EXCEPT !.c.seq.MemIfID = Incr(@)] ELSE d
        memifID == IF alloc THEN d1.c.seq.MemIfID ELSE sfcID[1].MemifId
    IN Bind(ElementIpv4(d1, sfc, e, sfcID, generateAddresses), LAMBDA d2 :
       IF d2.err THEN [d2 EXCEPT !.ret = ""] ELSE
       LET ip == d2.ret
       IN Bind(ElementMac(d2, e, sfcID, generateAddresses), LAMBDA d3 :
       LET mac == d3.ret
       IN Bind(memIfCreate(d3, e.Container, e.PortLabel, memifID, FALSE,
                             e.EtcdVppSwitchKey, ip[1], mac[1]), LAMBDA d4 :
          IF d4.err THEN [d4 EXCEPT !.ret = ""] ELSE
          LET memIfName == "IF_MEMIF_VSWITCH_" \o e.Container \o "_" \o e.PortLabel
          IN Bind(memIfCreate(d4, e.EtcdVppSwitchKey, memIfName, memifID, TRUE,
                                e.EtcdVppSwitchKey, NoIp, NoMac), LAMBDA d5 :
             IF d5.err THEN Panic(d5) ELSE
             Bind(DatastoreCreate(d5, "SFCIDs", "sfcIDs",
                           SfcIdKey(sfc.Name, e.Container, e.PortLabel),
                           SFCIDsRec(ip[2], mac[2], memifID, 0)), LAMBDA d6 :
             Bind(setSfcInterfaceIPAndMac(d6, e.Container, e.PortLabel, ip[1], mac[1]),
                  LAMBDA d7 :
                [d7 EXCEPT !.ret = memIfName]))))))

\* the memif pair is created and the bridge is left as it was
createMemIfPairNotBridged(d, sfc, hostName, bd, e, generateAddresses) ==
    createMemIfPair(d, sfc, hostName, e, generateAddresses)

\* createMemIfPairAndAddToBridge: ret is the name of the vswitch-end memif
createMemIfPairAndAddToBridge(d, sfc, hostName, bd, e, generateAddresses) ==
    Bind(createMemIfPair(d, sfc, hostName, e, generateAddresses), LAMBDA d1 :
       IF Failed(d1) THEN [d1 EXCEPT !.ret = ""] ELSE
       LET memIfName == d1.ret
       IN Bind(bridgedDomainAssociateWithIfs(d1, e.EtcdVppSwitchKey, bd, <<memIfName>>),
            LAMBDA d2 :
          IF Failed(d2) THEN [d2 EXCEPT !.ret = ""] ELSE [d2 EXCEPT !.ret = memIfName]))

\* the digits of strconv.FormatUint in base 36
Base36Digits == "0123456789abcdefghijklmnopqrstuvwxyz"

\* strconv.FormatUint(id, 36); MaxUint32 is 36 * 119304647 + 3
RECURSIVE FormatBase36(_)
FormatBase36(id) ==
    IF id = MaxUint32 THEN FormatBase36(119304647) \o "3"
    ELSE IF id < 36 THEN SubSeq(Base36Digits, id + 1, id + 1)
    ELSE FormatBase36(id \div 36) \o SubSeq(Base36Digits, (id % 36) + 1, (id % 36) + 1)

\* stringFirstNLastM: the string when it has at most n + m characters, else
\* its first n and its last m characters
stringFirstNLastM(n, m, str) ==
    IF Len(str) <= n + m THEN str
    ELSE SubSeq(str, 1, n) \o SubSeq(str, Len(str) - m + 1, Len(str))

\* constructBaseHostName: 2 + 3 characters of the container and of the port,
\* each budget raised by what the other name and the id leave unused
constructBaseHostName(container, port, v) ==
    LET lc == Len(container)
        lp == Len(port)
        lv == Len(v)
        pb == 2 + (IF lc \in {3, 4} THEN 1 ELSE IF lc \in {1, 2} THEN 2 ELSE 0)
        pe == 3 + (IF lc \in {2, 3} THEN 1 ELSE IF lc = 1 THEN 2 ELSE 0)
        cb == 2 + (IF lp \in {3, 4} THEN 1 ELSE IF lp \in {1, 2} THEN 2 ELSE 0)
                + (IF lv \in {1, 2} THEN 1 ELSE 0)
        ce == 3 + (IF lp \in {2, 3} THEN 1 ELSE IF lp = 1 THEN 2 ELSE 0)
                + (IF lv = 1 THEN 1 ELSE 0)
    IN stringFirstNLastM(cb, ce, container) \o "_" \o stringFirstNLastM(pb, pe, port)

\* createAFPacketVEthPair: ret is the name of the vswitch-end af-packet
\* interface
createAFPacketVEthPair(d, sfc, e) ==
    LET sfcID == DatastoreRetrieve(d, "SFCIDs", SfcIdKey(sfc.Name, e.Container, e.PortLabel))
        alloc == sfcID = <<>> \/ sfcID[1].VethId = 0
        d1 == IF alloc THEN [d EXCEPT !.c.seq.VethID = Incr(@)] ELSE d
        vethID == IF alloc THEN d1.c.seq.VethID ELSE sfcID[1].VethId
    IN Bind(ElementIpv4(d1, sfc, e, sfcID, TRUE), LAMBDA d2 :
       IF d2.err THEN [d2 EXCEPT !.ret = ""] ELSE
       LET ip == d2.ret
       IN Bind(ElementMac(d2, e, sfcID, TRUE), LAMBDA d3 :
       LET mac == d3.ret
           veth1Name == "IF_VETH_VNF_" \o e.Container \o "_" \o e.PortLabel
           veth2Name == "IF_VETH_VSWITCH_" \o e.Container \o "_" \o e.PortLabel
           host1Name == e.PortLabel
           vethIDStr == FormatBase36(vethID)
           host2Name == constructBaseHostName(e.Container, e.PortLabel, vethIDStr)
                            \o "_" \o vethIDStr
           vpp == e.Type = VPP_CONTAINER_AFP
       IN Bind(vEthIfCreate(d3, e.EtcdVppSwitchKey, veth1Name, host1Name, veth2Name,
                              e.Container, mac[1], IF vpp THEN NoIp ELSE ip[1]), LAMBDA d4 :
          IF d4.err THEN [d4 EXCEPT !.ret = ""] ELSE
          Bind(vEthIfCreate(d4, e.EtcdVppSwitchKey, veth2Name, host2Name, veth1Name,
                                 e.EtcdVppSwitchKey, NoMac, NoIp), LAMBDA d5 :
             IF d5.err THEN [d5 EXCEPT !.ret = ""] ELSE
             Bind(IF vpp
                       THEN afPacketCreate(d5, e.Container, e.PortLabel, host1Name,
                                           ip[1], mac[1])
                       ELSE d5, LAMBDA d6 :
                IF d6.err THEN Panic(d6) ELSE
                LET afPktName == "IF_AFPIF_VSWITCH_" \o e.Container \o "_" \o e.PortLabel
                IN Bind(afPacketCreate(d6, e.EtcdVppSwitchKey, afPktName, host2Name,
                                         NoIp, NoMac), LAMBDA d7 :
                   IF d7.err THEN Panic(d7) ELSE
                   Bind(DatastoreCreate(d7, "SFCIDs", "sfcIDs",
                                 SfcIdKey(sfc.Name, e.Container, e.PortLabel),
                                 SFCIDsRec(ip[2], mac[2], 0, vethID)), LAMBDA d8 :
                   Bind(setSfcInterfaceIPAndMac([d8 EXCEPT !.err = FALSE],
                                 e.Container, e.PortLabel, ip[1], mac[1]), LAMBDA d9 :
                      [d9 EXCEPT !.ret = afPktName]))))))))

\* the veth/af-packet pair is created and the bridge is left as it was
createAFPacketVEthPairNotBridged(d, sfc, bd, e) == createAFPacketVEthPair(d, sfc, e)

\* createAFPacketVEthPairAndAddToBridge
createAFPacketVEthPairAndAddToBridge(d, sfc, bd, e) ==
    Bind(createAFPacketVEthPair(d, sfc, e), LAMBDA d1 :
       IF Failed(d1) THEN [d1 EXCEPT !.ret = ""] ELSE
       LET afPktIfName == d1.ret
       IN Bind(bridgedDomainAssociateWithIfs(d1, e.EtcdVppSwitchKey, bd, <<afPktIfName>>),
            LAMBDA d2 :
          IF Failed(d2) THEN [d2 EXCEPT !.ret = ""] ELSE [d2 EXCEPT !.ret = afPktIfName]))

IsAFP(e) == e.Type \in {VPP_CONTAINER_AFP, NON_VPP_CONTAINER_AFP}

IsMemIf(e) == e.Type \in {VPP_CONTAINER_MEMIF, NON_VPP_CONTAINER_MEMIF}

\* two are let through, the third is refused
MoreThanTwo(count) == count > 2

\* wireSfcNorthSouthVXLANElements, "if eeCount > 1" and "if dhCount > 1"
MoreThanOne(count) == count > 1

\* wireSfcNorthSouthVXLANElements, first loop: find the external entity and
\* the destination host; acc is [err, eeCount, ee, dhCount, dh], ee and dh
\* being the elements found (<<>>: nil)
RECURSIVE ScanNorthSouthVXLAN(_, _, _)
ScanNorthSouthVXLAN(d, elements, acc) ==
    IF elements = <<>> THEN acc ELSE
    LET e == Head(elements) IN
    IF e.Type = EXTERNAL_ENTITY
    THEN IF MoreThanOne(acc.eeCount + 1) \/ e.Container \notin d.c.EEs
         THEN [acc EXCEPT !.err = TRUE]
         ELSE ScanNorthSouthVXLAN(d, Tail(elements),
                  [acc EXCEPT !.eeCount = @ + 1, !.ee = <<e>>])
    ELSE IF e.Type = HOST_ENTITY
    THEN IF MoreThanOne(acc.dhCount + 1) \/ e.Container \notin d.c.HEs
         THEN [acc EXCEPT !.err = TRUE]
         ELSE ScanNorthSouthVXLAN(d, Tail(elements),
                  [acc EXCEPT !.dhCount = @ + 1, !.dh = <<e>>])
    ELSE ScanNorthSouthVXLAN(d, Tail(elements), acc)

\* wireSfcNorthSouthVXLANElements, second loop: each container is wired to
\* the bridge of the edge from its host to the ee or to the destination host
RECURSIVE WireNorthSouthVXLANContainers(_, _, _, _)
WireNorthSouthVXLANContainers(d, sfc, elements, scan) ==
    IF elements = <<>> THEN d ELSE
    LET e == Head(elements) IN
    IF ~(IsAFP(e) \/ IsMemIf(e))
    THEN WireNorthSouthVXLANContainers(d, sfc, Tail(elements), scan)
    ELSE Bind(IF scan.eeCount # 0
                   THEN createVxLANAndBridgeToExtEntity(d, sfc, e.EtcdVppSwitchKey,
                            scan.ee[1].Container, scan.ee[1].VlanId)
                   ELSE createVxLANAndBridgeToDestHost(d, sfc, e.EtcdVppSwitchKey,
                            scan.dh[1].Container, scan.dh[1].VlanId), LAMBDA d1 :
            IF Failed(d1) THEN d1 ELSE
            Bind(IF IsAFP(e)
                      THEN createAFPacketVEthPairAndAddToBridge(d1, sfc, d1.ret, e)
                      ELSE createMemIfPairAndAddToBridge(d1, sfc, e.EtcdVppSwitchKey,
                                                         d1.ret, e, FALSE), LAMBDA d2 :
               IF Failed(d2) THEN d2
               ELSE WireNorthSouthVXLANContainers(d2, sfc, Tail(elements), scan)))

\* wireSfcNorthSouthVXLANElements
wireSfcNorthSouthVXLANElements(d, sfc) ==
    Bind(ScanNorthSouthVXLAN(d, sfc.Elements,
                    [err |-> FALSE, eeCount |-> 0, ee |-> <<>>, dhCount |-> 0, dh |-> <<>>]),
         LAMBDA scan :
       IF scan.err THEN Errd(d)
       ELSE IF scan.eeCount = 0 /\ scan.dhCount = 0 THEN Errd(d)
       ELSE WireNorthSouthVXLANContainers(d, sfc, sfc.Elements, scan))

\* ------------------------------------------------------------------------
\* North-south NIC
\* ------------------------------------------------------------------------

\* replaceSlashesWithUScores, on the port labels of this model
replaceSlashesWithUScores(slashesString) ==
    IF slashesString = "Gig3/0" THEN "Gig3_0" ELSE slashesString

\* createVRFEntries, first loop: the element's static routes
RECURSIVE createVRFRoutes(_, _, _, _, _)
createVRFRoutes(d, etcdVppSwitchKey, routes, ifaceName, defaultDescription) ==
    IF routes = <<>> THEN d ELSE
    LET r == Head(routes)
        vrfDescription == IF r.Description # "" THEN r.Description ELSE defaultDescription
    IN Bind(createStaticRoute(d, r.VrfId, etcdVppSwitchKey, vrfDescription,
                                r.DstIpAddr, r.NextHopAddr, ifaceName), LAMBDA d1 :
       IF d1.err THEN d1
       ELSE createVRFRoutes(d1, etcdVppSwitchKey, Tail(routes), ifaceName, defaultDescription))

\* createVRFEntries, second loop: the element's static ARP entries
RECURSIVE createVRFArps(_, _, _, _)
createVRFArps(d, etcdVppSwitchKey, arps, ifaceName) ==
    IF arps = <<>> THEN d ELSE
    LET a == Head(arps)
    IN Bind(createStaticArpEntry(d, etcdVppSwitchKey, a.IpAddress, a.PhysAddress, ifaceName),
         LAMBDA d1 :
       IF d1.err THEN d1 ELSE createVRFArps(d1, etcdVppSwitchKey, Tail(arps), ifaceName))

\* createVRFEntries
createVRFEntries(d, etcdVppSwitchKey, e, ifaceName, defaultDescription) ==
    Bind(createVRFRoutes(d, etcdVppSwitchKey, e.L3VrfRoutes, ifaceName, defaultDescription),
         LAMBDA d1 :
       IF d1.err THEN d1 ELSE createVRFArps(d1, etcdVppSwitchKey, e.L3ArpEntries, ifaceName))

\* "now create the l2fib entries": one entry per declared MAC
RECURSIVE createL2FibEntries(_, _, _, _, _)
createL2FibEntries(d, etcdPrefix, bdName, macs, outGoingIf) ==
    IF macs = <<>> THEN d ELSE
    Bind(createL2FibEntry(d, etcdPrefix, bdName, Head(macs), outGoingIf), LAMBDA d1 :
       IF d1.err THEN d1
       ELSE createL2FibEntries(d1, etcdPrefix, bdName, Tail(macs), outGoingIf))

VrfDescription(sfc, e) == "VRF_" \o sfc.Name \o "_" \o e.Container \o "_" \o e.PortLabel

\* wireSfcNorthSouthNICElements, first loop: acc is [err, heCount, he]
RECURSIVE ScanNorthSouthNIC(_, _)
ScanNorthSouthNIC(elements, acc) ==
    IF elements = <<>> THEN acc ELSE
    LET e == Head(elements) IN
    IF e.Type = HOST_ENTITY
    THEN IF acc.heCount + 1 > 1 THEN [acc EXCEPT !.err = TRUE]
         ELSE ScanNorthSouthNIC(Tail(elements), [acc EXCEPT !.heCount = @ + 1, !.he = <<e>>])
    ELSE ScanNorthSouthNIC(Tail(elements), acc)

\* wireSfcNorthSouthNICElements, the NIC and what hangs off it: the
\* ethernet interface, for NIC_BD the bridge holding the NIC and the NIC's
\* l2fib entries, for NIC_VRF the NIC's routes and ARP entries; ret is the
\* bridge (nil unless NIC_BD)
NorthSouthNIC(d, sfc, he) ==
    Bind(createEthernet(d, he.Container, he.PortLabel, NoIp, he.MacAddr), LAMBDA d1 :
       IF d1.err THEN d1 ELSE
       Bind(IF sfc.Type # SFC_NS_NIC_BD THEN [d1 EXCEPT !.ret = <<>>] ELSE
                 LET bdParms == IF sfc.BdParms = "" THEN "static" ELSE sfc.BdParms
                     bdName == "BD_INTERNAL_NS_" \o replaceSlashesWithUScores(he.PortLabel)
                 IN Bind(bridgedDomainCreateWithIfs(d1, he.Container, bdName,
                                                      <<he.PortLabel>>, bdParms), LAMBDA b1 :
                    IF b1.err THEN Panic(b1) ELSE
                    Bind(createL2FibEntries(b1, he.Container, bdName,
                                                 he.L2FibMacs, he.PortLabel), LAMBDA b2 :
                       [b2 EXCEPT !.ret = b1.ret])), LAMBDA d2 :
          IF Failed(d2) THEN d2 ELSE
          IF sfc.Type # SFC_NS_NIC_VRF THEN d2 ELSE
          Bind(createVRFEntries(d2, he.Container, he, he.PortLabel, VrfDescription(sfc, he)),
               LAMBDA d3 :
             [d3 EXCEPT !.ret = d2.ret])))

\* wireSfcNorthSouthNICElements, second loop, one container element
NorthSouthNICContainer(d, sfc, he, bd, e) ==
    IF sfc.Type = SFC_NS_NIC_BD
    THEN Bind(IF IsAFP(e)
                   THEN createAFPacketVEthPairAndAddToBridge(d, sfc, bd, e)
                   ELSE createMemIfPairAndAddToBridge(d, sfc, e.EtcdVppSwitchKey, bd, e, FALSE),
              LAMBDA d1 :
            IF Failed(d1) THEN d1
            ELSE createL2FibEntries(d1, e.EtcdVppSwitchKey, d1.c.bdObjs[bd[1]].Name,
                                    e.L2FibMacs, d1.ret))
    ELSE IF sfc.Type = SFC_NS_NIC_VRF
    THEN Bind(createAFPacketVEthPair(d, sfc, e), LAMBDA d1 :
            IF Failed(d1) THEN d1
            ELSE createVRFEntries(d1, e.EtcdVppSwitchKey, e, d1.ret, VrfDescription(sfc, e)))
    ELSE Bind(IF IsAFP(e) THEN createAFPacketVEthPair(d, sfc, e)
                   ELSE createMemIfPair(d, sfc, e.EtcdVppSwitchKey, e, FALSE), LAMBDA d1 :
            IF Failed(d1) THEN d1
            ELSE createXConnectPair(d1, e.EtcdVppSwitchKey, he.PortLabel, d1.ret))

\* wireSfcNorthSouthNICElements, second loop
RECURSIVE WireNorthSouthNICContainers(_, _, _, _, _)
WireNorthSouthNICContainers(d, sfc, he, bd, elements) ==
    IF elements = <<>> THEN d ELSE
    LET e == Head(elements) IN
    IF ~(IsAFP(e) \/ IsMemIf(e))
    THEN WireNorthSouthNICContainers(d, sfc, he, bd, Tail(elements))
    ELSE Bind(NorthSouthNICContainer(d, sfc, he, bd, e), LAMBDA d1 :
            IF Failed(d1) THEN d1
            ELSE WireNorthSouthNICContainers(d1, sfc, he, bd, Tail(elements)))

\* wireSfcNorthSouthNICElements
wireSfcNorthSouthNICElements(d, sfc) ==
    Bind(ScanNorthSouthNIC(sfc.Elements, [err |-> FALSE, heCount |-> 0, he |-> <<>>]),
         LAMBDA scan :
       IF scan.err \/ scan.heCount = 0 THEN Errd(d) ELSE
       Bind(NorthSouthNIC(d, sfc, scan.he[1]), LAMBDA d1 :
          IF Failed(d1) THEN d1
          ELSE WireNorthSouthNICContainers(d1, sfc, scan.he[1], d1.ret, sfc.Elements)))

\* ------------------------------------------------------------------------
\* East-west
\* ------------------------------------------------------------------------

\* createInterContainerMemIfPair: master end in vnf1, slave end in vnf2, both
\* on the socket of vnf1
createInterContainerMemIfPair(d, sfcName, vnf1Container, vnf1Port, vnf2Container, vnf2Port, memIFID) ==
    Bind(memIfCreate(d, vnf1Container, vnf1Port, memIFID, TRUE, vnf1Container, NoIp, NoMac),
         LAMBDA d1 :
       IF d1.err THEN d1
       ELSE memIfCreate(d1, vnf2Container, vnf2Port, memIFID, FALSE, vnf1Container, NoIp, NoMac))

\* "vnfx-" + strconv.Itoa(n)
VnfxName(n) == "vnfx-" \o ToString(n)

\* createOneOrMoreInterContainerMemIfPairs, the loop from repeatCount on
RECURSIVE InterContainerMemIfPairs(_, _, _, _, _, _)
InterContainerMemIfPairs(d, sfcName, vnfElement1, vnfElement2, vnfRepeatCount, repeatCount) ==
    IF repeatCount > vnfRepeatCount THEN d ELSE
    LET container1Name == IF repeatCount = 0 THEN vnfElement1.Container
                          ELSE VnfxName(repeatCount - 1)
        vnf1Port == vnfElement1.PortLabel
        container2Name == IF repeatCount = vnfRepeatCount THEN vnfElement2.Container
                          ELSE VnfxName(repeatCount)
        vnf2Port == vnfElement2.PortLabel
        sfcID == DatastoreRetrieve(d, "SFCIDs", SfcIdKey(sfcName, container1Name, vnf1Port))
        alloc == sfcID = <<>> \/ sfcID[1].MemifId = 0
        d1 == IF alloc THEN [d EXCEPT !.c.seq.MemIfID = Incr(@)] ELSE d
        memifID == IF alloc THEN d1.c.seq.MemIfID ELSE sfcID[1].MemifId
    IN Bind(createInterContainerMemIfPair(d1, sfcName, container1Name, vnf1Port,
                                            container2Name, vnf2Port, memifID), LAMBDA d2 :
       IF d2.err THEN d2 ELSE
       Bind(DatastoreCreate(d2, "SFCIDs", "sfcIDs",
                     SfcIdKey(sfcName, container1Name, vnf1Port),
                     SFCIDsRec(0, 0, memifID, 0)), LAMBDA d3 :
          InterContainerMemIfPairs([d3 EXCEPT !.err = FALSE], sfcName, vnfElement1,
                                   vnfElement2, vnfRepeatCount, repeatCount + 1)))

\* createOneOrMoreInterContainerMemIfPairs
createOneOrMoreInterContainerMemIfPairs(d, sfcName, vnfElement1, vnfElement2, vnfRepeatCount) ==
    InterContainerMemIfPairs(d, sfcName, vnfElement1, vnfElement2, vnfRepeatCount, 0)

\* wireSfcEastWestElements, choice of the bridge for an element of an
\* SFC_EW_BD / SFC_EW_BD_L2FIB chain; ret is the bridge pointer
EastWestBridge(d, sfc, e) ==
    IF e.EtcdVppSwitchKey \notin DOMAIN d.c.HE THEN Errd(d) ELSE
    LET heState == d.c.HE[e.EtcdVppSwitchKey] IN
    IF sfc.Type = SFC_EW_BD THEN [d EXCEPT !.ret = heState.ewBD]
    ELSE IF sfc.BdParms = "" THEN [d EXCEPT !.ret = heState.ewBDL2Fib]
    ELSE LET d1 == IF sfc.Name \in DOMAIN d.c.SFCToHEs THEN d
                   ELSE [d EXCEPT !.c.SFCToHEs = MapPut(@, sfc.Name, EmptyMap)]
         IN IF e.EtcdVppSwitchKey \in DOMAIN d1.c.SFCToHEs[sfc.Name]
            THEN [d1 EXCEPT !.ret = d1.c.SFCToHEs[sfc.Name][e.EtcdVppSwitchKey].ewBDL2Fib]
            ELSE LET bdName == "BD_INTERNAL_EW_" \o sfc.Name \o "_" \o e.EtcdVppSwitchKey
                 IN Bind(bridgedDomainCreateWithIfs(d1, e.EtcdVppSwitchKey, bdName,
                                                      <<>>, sfc.BdParms), LAMBDA d2 :
                    IF d2.err THEN Panic(d2)
                    ELSE [d2 EXCEPT !.c.SFCToHEs[sfc.Name] =
                              MapPut(@, e.EtcdVppSwitchKey,
                                     [ewBD |-> <<>>, ewBDL2Fib |-> d2.ret])])

\* wireSfcEastWestElements, an element joined to a bridge, with its l2fib
\* entries
EastWestBridgeElement(d, sfc, e) ==
    Bind(EastWestBridge(d, sfc, e), LAMBDA d1 :
       IF Failed(d1) THEN d1 ELSE
       LET bd == d1.ret
       IN Bind(IF IsAFP(e)
                 THEN createAFPacketVEthPairAndAddToBridge(d1, sfc, bd, e)
                 ELSE createMemIfPairAndAddToBridge(d1, sfc, e.EtcdVppSwitchKey, bd, e, TRUE),
            LAMBDA d2 :
          IF Failed(d2) THEN d2
          ELSE createL2FibEntries(d2, e.EtcdVppSwitchKey, d2.c.bdObjs[bd[1]].Name,
                                  e.L2FibMacs, d2.ret)))

\* l2xconnect-based wiring of one element that keeps the name of the element
\* as the carried one after a pair
EastWestXConnElementCarried(d, sfc, e, prevMemIfName) ==
    Bind(IF IsAFP(e) THEN createAFPacketVEthPair(d, sfc, e)
              ELSE createMemIfPair(d, sfc, e.EtcdVppSwitchKey, e, FALSE), LAMBDA d1 :
       IF Failed(d1) THEN d1 ELSE
       IF prevMemIfName # ""
       THEN Bind(createXConnectPair(d1, e.EtcdVppSwitchKey, d1.ret, prevMemIfName),
                 LAMBDA d2 :
               [d2 EXCEPT !.ret = d1.ret])
       ELSE d1)

\* wireSfcEastWestElements, l2xconnect-based wiring of one element: ret is
\* the new value of prevMemIfName
EastWestXConnElement(d, sfc, e, prevMemIfName) ==
    Bind(IF IsAFP(e) THEN createAFPacketVEthPair(d, sfc, e)
              ELSE createMemIfPair(d, sfc, e.EtcdVppSwitchKey, e, FALSE), LAMBDA d1 :
       IF Failed(d1) THEN d1 ELSE
       IF prevMemIfName # ""
       THEN Bind(createXConnectPair(d1, e.EtcdVppSwitchKey, d1.ret, prevMemIfName),
                 LAMBDA d2 :
               [d2 EXCEPT !.ret = ""])
       ELSE d1)

\* wireSfcEastWestElements, the loop from element i on (i counts from 0)
RECURSIVE WireEastWestElements(_, _, _, _)
WireEastWestElements(d, sfc, i, prevMemIfName) ==
    IF i >= Len(sfc.Elements) THEN d ELSE
    LET e == sfc.Elements[i + 1]
        isBD == sfc.Type \in {SFC_EW_BD, SFC_EW_BD_L2FIB}
    IN
    IF e.Type = EXTERNAL_ENTITY THEN Errd(d)
    ELSE IF ~(IsAFP(e) \/ IsMemIf(e)) THEN WireEastWestElements(d, sfc, i + 1, prevMemIfName)
    ELSE IF IsMemIf(e) /\ sfc.Type = SFC_EW_MEMIF
    THEN IF i % 2 # 0 THEN WireEastWestElements(d, sfc, i + 1, prevMemIfName)
         ELSE Bind(createOneOrMoreInterContainerMemIfPairs(d, sfc.Name,
                            sfc.Elements[i + 1], sfc.Elements[i + 2], sfc.VnfRepeatCount),
                   LAMBDA d1 :
                 IF Failed(d1) THEN d1
                 ELSE WireEastWestElements(d1, sfc, i + 1, prevMemIfName))
    ELSE IF isBD
    THEN Bind(EastWestBridgeElement(d, sfc, e), LAMBDA d1 :
            IF Failed(d1) THEN d1
            ELSE WireEastWestElements(d1, sfc, i + 1, prevMemIfName))
    ELSE Bind(EastWestXConnElement(d, sfc, e, prevMemIfName), LAMBDA d1 :
            IF Failed(d1) THEN d1
            ELSE WireEastWestElements(d1, sfc, i + 1, d1.ret))

\* wireSfcEastWestElements
wireSfcEastWestElements(d, sfc) ==
    IF sfc.Type = SFC_EW_MEMIF /\ Len(sfc.Elements) % 2 # 0 THEN Errd(d)
    ELSE WireEastWestElements(d, sfc, 0, "")

\* WireSfcEntity: dispatch on the type
WireSfcEntityOp(d, sfc) ==
    IF sfc.Type = SFC_NS_VXLAN
    THEN wireSfcNorthSouthVXLANElements([d EXCEPT !.c.SFCs = @ \cup {sfc.Name}], sfc)
    ELSE IF sfc.Type \in {SFC_NS_NIC_BD, SFC_NS_NIC_VRF, SFC_NS_NIC_L2XCONN}
    THEN wireSfcNorthSouthNICElements([d EXCEPT !.c.SFCs = @ \cup {sfc.Name}], sfc)
    ELSE IF sfc.Type \in {SFC_EW_MEMIF, SFC_EW_BD, SFC_EW_BD_L2FIB, SFC_EW_L2XCONN}
    THEN wireSfcEastWestElements([d EXCEPT !.c.SFCs = @ \cup {sfc.Name}], sfc)
    ELSE Errd(d)

\* ------------------------------------------------------------------------
\* Restart and reconciliation
\* ------------------------------------------------------------------------

\* ids of one kind held by the persisted bindings
BoundVlanIds(i) ==
    {i.HE2EEIDs[k] : k \in DOMAIN i.HE2EEIDs} \cup {i.HE2HEIDs[k] : k \in DOMAIN i.HE2HEIDs}

BoundMemifIds(i) == {i.SFCIDs[k].MemifId : k \in DOMAIN i.SFCIDs}

BoundMacIds(i) ==
    {i.HEIDs[k] : k \in DOMAIN i.HEIDs} \cup {i.SFCIDs[k].MacAddrId : k \in DOMAIN i.SFCIDs}

BoundVethIds(i) == {i.SFCIDs[k].VethId : k \in DOMAIN i.SFCIDs}

\* the counters of a fresh driver over a store holding the bindings i: each
\* is the highest id bound
ReconstructSequencer(i) ==
    [VLanID |-> Max(BoundVlanIds(i)), MemIfID |-> Max(BoundMemifIds(i)),
     MacInstanceID |-> Max(BoundMacIds(i)), VethID |-> Max(BoundVethIds(i))]

\* resource kinds that are buffered while reconciling
BufferedKinds == {"interface", "linuxif", "bd", "route"}

\* the published state of the buffered kinds
Snapshot(store) ==
    LET ks == {k \in DOMAIN store : k[2] \in BufferedKinds}
    IN [k \in ks |-> store[k]]

\* an enumeration of a finite set
RECURSIVE SetToSeq(_)
SetToSeq(S) ==
    IF S = {} THEN <<>>
    ELSE LET x == CHOOSE y \in S : TRUE IN <<x>> \o SetToSeq(S \ {x})

\* ReconcileStart: fresh caches, snapshot of the published state, writes
\* diverted to the after buffer
ReconcileStartOp(d) ==
    [d EXCEPT !.c = [initL2CNPCache(d.c) EXCEPT
                        !.reconcileBefore = [reconcileCacheType EXCEPT !.res = Snapshot(d.db)],
                        !.reconcileAfter = reconcileCacheType,
                        !.reconcileInProgress = TRUE]]

\* ReconcileEnd, deletes: the keys of before that after does not hold
RECURSIVE ReconcileDeletes(_, _)
ReconcileDeletes(d, keys) ==
    IF keys = <<>> THEN d ELSE
    LET k == Head(keys)
        d1 == [d EXCEPT !.db = MapDel(@, k),
                        !.ops = Append(@, WriteOp(d, "delete", k, <<>>))]
    IN ReconcileDeletes(d1, Tail(keys))

\* ReconcileEnd, puts: the keys of after that are new or whose value changed
RECURSIVE ReconcilePuts(_, _)
ReconcilePuts(d, keys) ==
    IF keys = <<>> THEN d ELSE
    LET k == Head(keys)
    IN Bind(StorePut(d, k[1], k[2], k[3], d.c.reconcileAfter.res[k]), LAMBDA d1 :
       IF d1.err THEN d1 ELSE ReconcilePuts(d1, Tail(keys)))

\* ReconcileEnd: diff of before and after, then normal write mode
ReconcileEndOp(d) ==
    LET before == d.c.reconcileBefore.res
        after == d.c.reconcileAfter.res
        stale == (DOMAIN before) \ (DOMAIN after)
        changed == {k \in DOMAIN after : k \notin DOMAIN before \/ before[k] # after[k]}
        d0 == [d EXCEPT !.c.reconcileInProgress = FALSE]
    IN Bind(ReconcileDeletes(d0, SetToSeq(stale)), LAMBDA d1 :
       ReconcilePuts(d1, SetToSeq(changed)))

\* ------------------------------------------------------------------------
\* The state machine
\* ------------------------------------------------------------------------

VARIABLES
    cnpd,      \* the driver object
    db,        \* derived resources in the store
    ids,       \* persisted id bindings in the store
    ipam,      \* IPAM tables of the process
    ext,       \* calls received by the external-entity driver
    panicked,  \* the process died on a nil pointer dereference
    restarts,  \* restarts so far
    cycles,    \* reconcile cycles started so far
    run        \* the caller: how the operations are driven, and what it saw

vars == <<cnpd, db, ids, ipam, ext, panicked, restarts, cycles, run>>

\* The caller of the driver.  In mode "api" operations arrive one by one in
\* any order.  In mode "config" the controller applies a loaded
\* configuration, the sequence input of operations, in order and in full:
\*   pc      the next operation of input
\*   loads   configurations loaded after the first
\*   same    this pass applies the input that the pass before applied in
\*           full, and ids1 are the id bindings that pass left
\*   cycle   "none", "running" (reconcile cycle in progress) or "done" (the
\*           cycle ended and nothing ran since); cycleSame: the cycle
\*           re-applies the only configuration the store has ever seen
\*   writes  keys put into or deleted from the store since ReconcileStart
ApiRun ==
    [mode |-> "api", input |-> <<>>, pc |-> 1, loads |-> 0, same |-> FALSE,
     ids1 |-> EmptyIds, cycle |-> "none", cycleSame |-> FALSE, writes |-> {}]

ConfigRun(input) == [ApiRun EXCEPT !.mode = "config", !.input = input]

Input(op, arg) == [op |-> op, arg |-> arg]

\* the operation is the one the caller issues next
Scheduled(op, arg) ==
    \/ run.mode = "api"
    \/ /\ run.pc <= Len(run.input)
       /\ run.input[run.pc] = Input(op, arg)

\* the pass over the configuration is complete
Complete == run.mode = "config" /\ run.pc > Len(run.input)

\* keys of derived resources that the operation put or deleted
StoreWrites(d) ==
    {<<d.ops[i].sink, d.ops[i].key>> : i \in {j \in 1..Len(d.ops) : d.ops[j].sink \in {"store", "delete"}}}

\* the caller after the operation that led to d
Advance(d) ==
    run' = IF run.mode = "api" THEN run
           ELSE [run EXCEPT !.pc = @ + 1,
                            !.writes = IF run.cycle = "running" THEN @ \cup StoreWrites(d) ELSE @]

\* the caller starts a new pass over input
NewPass(input) ==
    IF run.mode = "api" THEN run
    ELSE [run EXCEPT !.input = input, !.pc = 1,
                     !.same = Complete /\ input = run.input,
                     !.ids1 = IF Complete /\ input = run.input THEN ids ELSE EmptyIds,
                     !.cycle = "none", !.cycleSame = FALSE, !.writes = {}]

\* the state handed to an operation
Begin(failAt) ==
    [c |-> cnpd, db |-> db, ids |-> ids, ipam |-> ipam, ext |-> ext,
     err |-> FALSE, panic |-> FALSE, ret |-> <<>>, ops |-> <<>>,
     nput |-> 0, failAt |-> failAt]

\* bridge objects still referenced by the state cache
LiveBdRefs(c) ==
    UNION {UNION {SeqToSet(c.HEToEEs[h][e].bd) : e \in DOMAIN c.HEToEEs[h]} : h \in DOMAIN c.HEToEEs}
    \cup UNION {UNION {SeqToSet(c.HEToHEs[h][e].bd) : e \in DOMAIN c.HEToHEs[h]} : h \in DOMAIN c.HEToHEs}
    \cup UNION {UNION {SeqToSet(c.SFCToHEs[h][e].ewBDL2Fib) : e \in DOMAIN c.SFCToHEs[h]} : h \in DOMAIN c.SFCToHEs}
    \cup UNION {SeqToSet(c.HE[h].ewBD) \cup SeqToSet(c.HE[h].ewBDL2Fib) : h \in DOMAIN c.HE}

\* the driver object once the operation returned: bridge objects that no
\* cache entry points to are unreachable
Collect(c) ==
    [c EXCEPT !.bdObjs = [r \in (DOMAIN c.bdObjs) \cap LiveBdRefs(c) |-> c.bdObjs[r]]]

\* the state the operation leaves
End(d) ==
    /\ cnpd' = Collect(d.c)
    /\ db' = d.db
    /\ ids' = d.ids
    /\ ipam' = d.ipam
    /\ ext' = d.ext
    /\ panicked' = d.panic

Running == ~panicked

Init ==
    /\ cnpd = NewSfcCtlrL2CNPDriver
    /\ db = EmptyMap
    /\ ids = EmptyIds
    /\ ipam = EmptyMap
    /\ ext = <<>>
    /\ panicked = FALSE
    /\ restarts = 0
    /\ cycles = 0
    /\ run = ApiRun

SetSystemParameters(sp) ==
    /\ Running
    /\ Scheduled("SetSystemParameters", sp.StartingVlanId)
    /\ Bind(SetSystemParametersOp(Begin(0), sp), LAMBDA d : End(d) /\ Advance(d))
    /\ UNCHANGED <<restarts, cycles>>

WireInternalsForHostEntity(h, failAt) ==
    /\ Running
    /\ Scheduled("WireInternalsForHostEntity", h)
    /\ Bind(WireInternalsForHostEntityOp(Begin(failAt), h), LAMBDA d : End(d) /\ Advance(d))
    /\ UNCHANGED <<restarts, cycles>>

WireHostEntityToDestinationHostEntity(sh, dh) ==
    /\ Running
    /\ Scheduled("WireHostEntityToDestinationHostEntity", <<sh, dh>>)
    /\ Bind(WireHostEntityToDestinationHostEntityOp(Begin(0), sh, dh), LAMBDA d :
          End(d) /\ Advance(d))
    /\ UNCHANGED <<restarts, cycles>>

WireHostEntityToExternalEntity(he, ee) ==
    /\ Running
    /\ Scheduled("WireHostEntityToExternalEntity", <<he, ee>>)
    /\ Bind(WireHostEntityToExternalEntityOp(Begin(0), he, ee), LAMBDA d :
          End(d) /\ Advance(d))
    /\ UNCHANGED <<restarts, cycles>>

WireSfcEntity(sfc, failAt) ==
    /\ Running
    /\ Scheduled("WireSfcEntity", sfc.Name)
    /\ Bind(WireSfcEntityOp(Begin(failAt), sfc), LAMBDA d : End(d) /\ Advance(d))
    /\ UNCHANGED <<restarts, cycles>>

\* the process is started again: a fresh driver over the same store
Restart ==
    /\ restarts < MaxRestarts
    /\ run.mode = "config" => Complete
    /\ cnpd' = [NewSfcCtlrL2CNPDriver EXCEPT !.seq = ReconstructSequencer(ids)]
    /\ ipam' = EmptyMap
    /\ ext' = <<>>
    /\ panicked' = FALSE
    /\ restarts' = restarts + 1
    /\ run' = NewPass(run.input)
    /\ UNCHANGED <<db, ids, cycles>>

ReconcileStart ==
    /\ Running
    /\ ~cnpd.reconcileInProgress
    /\ cycles < MaxReconciles
    /\ run.mode = "config" => Complete
    /\ End(ReconcileStartOp(Begin(0)))
    /\ cycles' = cycles + 1
    /\ run' = IF run.mode = "api" THEN run
              ELSE [NewPass(run.input) EXCEPT !.cycle = "running",
                                               !.cycleSame = Complete /\ run.loads = 0]
    /\ UNCHANGED restarts

ReconcileEnd(failAt) ==
    /\ Running
    /\ cnpd.reconcileInProgress
    /\ run.mode = "config" => Complete
    /\ Bind(ReconcileEndOp(Begin(failAt)), LAMBDA d :
          /\ End(d)
          /\ run' = IF run.mode = "api" THEN run
                    ELSE [run EXCEPT !.cycle = "done", !.writes = @ \cup StoreWrites(d)])
    /\ UNCHANGED <<restarts, cycles>>

\* the operator loads a configuration, which the controller applies
Load(input) ==
    /\ Running
    /\ Complete
    /\ ~cnpd.reconcileInProgress
    /\ run.loads < MaxLoads
    /\ run' = [NewPass(input) EXCEPT !.loads = @ + 1]
    /\ UNCHANGED <<cnpd, db, ids, ipam, ext, panicked, restarts, cycles>>

\* ------------------------------------------------------------------------
\* Inputs
\* ------------------------------------------------------------------------

SysParms == [StartingVlanId |-> StartingVlanId]

\* north-south VXLAN chains: to the external entity without and with an
\* explicit vlan_id, and between the two hosts in both directions
NsVxlanSfcs ==
    {SfcEntity("ns1", SFC_NS_VXLAN,
        <<SfcElement("e1", "", "", EXTERNAL_ENTITY),
          SfcElement("c1", "p1", "h1", VPP_CONTAINER_MEMIF)>>),
     SfcEntity("ns2", SFC_NS_VXLAN,
        <<[SfcElement("e1", "", "", EXTERNAL_ENTITY) EXCEPT !.VlanId = StartingVlanId],
          SfcElement("c2", "p1", "h2", NON_VPP_CONTAINER_AFP)>>),
     SfcEntity("ns3", SFC_NS_VXLAN,
        <<SfcElement("h2", "", "", HOST_ENTITY),
          SfcElement("c3", "p1", "h1", VPP_CONTAINER_MEMIF)>>),
     SfcEntity("ns4", SFC_NS_VXLAN,
        <<SfcElement("h1", "", "", HOST_ENTITY),
          SfcElement("c4", "p1", "h2", VPP_CONTAINER_AFP)>>)}

\* malformed north-south VXLAN chains: two external entities, two
\* destination hosts, neither
BadNsVxlanSfcs ==
    {SfcEntity("bad1", SFC_NS_VXLAN,
        <<SfcElement("e1", "", "", EXTERNAL_ENTITY),
          SfcElement("e1", "", "", EXTERNAL_ENTITY),
          SfcElement("c1", "p1", "h1", VPP_CONTAINER_MEMIF)>>),
     SfcEntity("bad2", SFC_NS_VXLAN,
        <<SfcElement("h1", "", "", HOST_ENTITY),
          SfcElement("c1", "p1", "h1", VPP_CONTAINER_MEMIF),
          SfcElement("h2", "", "", HOST_ENTITY)>>),
     SfcEntity("bad3", SFC_NS_VXLAN,
        <<SfcElement("c1", "p1", "h1", VPP_CONTAINER_MEMIF)>>)}

\* North-south VXLAN wiring in one process lifetime, in normal write mode
Next ==
    \/ SetSystemParameters(SysParms)
    \/ \E sh \in HostNames : \E dh \in HostNames \ {sh} :
           WireHostEntityToDestinationHostEntity(sh, dh)
    \/ \E he \in HostNames, ee \in EENames : WireHostEntityToExternalEntity(he, ee)
    \/ \E sfc \in NsVxlanSfcs \cup BadNsVxlanSfcs : WireSfcEntity(sfc, 0)

Spec == Init /\ [][Next]_vars

\* the chains of a catalogue with the given names
Named(sfcs, names) == {sfc \in sfcs : sfc.Name \in names}

\* North-south VXLAN wiring across restarts of the process
NextRestart ==
    \/ SetSystemParameters(SysParms)
    \/ WireInternalsForHostEntity("h1", 0)
    \/ WireHostEntityToDestinationHostEntity("h1", "h2")
    \/ \E he \in HostNames : WireHostEntityToExternalEntity(he, "e1")
    \/ \E sfc \in Named(NsVxlanSfcs, {"ns1", "ns2", "ns3"}) : WireSfcEntity(sfc, 0)
    \/ Restart

SpecRestart == Init /\ [][NextRestart]_vars

\* chains of the other types: a cross-connect of a memif and an af-packet
\* container, a NIC bridge with l2fib entries, a NIC VRF with a route and
\* a static ARP entry
OtherSfcs ==
    {SfcEntity("xc", SFC_EW_L2XCONN,
        <<SfcElement("c5", "p1", "h1", VPP_CONTAINER_MEMIF),
          SfcElement("c6", "p1", "h1", VPP_CONTAINER_AFP)>>),
     SfcEntity("nbd", SFC_NS_NIC_BD,
        <<[SfcElement("h1", "Gig3/0", "", HOST_ENTITY) EXCEPT
               !.L2FibMacs = <<<<2, 0, 0, 0, 0, 9>>>>],
          [SfcElement("c7", "p1", "h1", VPP_CONTAINER_MEMIF) EXCEPT
               !.L2FibMacs = <<<<2, 0, 0, 0, 0, 7>>>>]>>),
     SfcEntity("vrf", SFC_NS_NIC_VRF,
        <<[SfcElement("h1", "Gig3/0", "", HOST_ENTITY) EXCEPT
               !.L3ArpEntries = <<L3ArpEntry(Ip("10.0.40", 9, 0), <<2, 0, 0, 0, 0, 9>>)>>],
          [SfcElement("c8", "p1", "h1", NON_VPP_CONTAINER_AFP) EXCEPT
               !.Ipv4Addr = Ip("10.0.50", 8, 24),
               !.L3VrfRoutes = <<L3VRFRoute(0, "", Ip("10.0.50", 0, 24), Ip("10.0.50", 8, 0))>>]>>)}

ConfigSfcs == Named(NsVxlanSfcs, {"ns1", "ns3"}) \cup OtherSfcs

\* the configurations the controller is given: the system parameters, the
\* host, the edge if the chain needs one, the chain
Configs ==
    {<<Input("SetSystemParameters", StartingVlanId),
       Input("WireInternalsForHostEntity", "h1"),
       Input("WireHostEntityToExternalEntity", <<"h1", "e1">>),
       Input("WireSfcEntity", "ns1")>>,
     <<Input("SetSystemParameters", StartingVlanId),
       Input("WireInternalsForHostEntity", "h1"),
       Input("WireHostEntityToDestinationHostEntity", <<"h1", "h2">>),
       Input("WireSfcEntity", "ns3")>>}
    \cup {<<Input("SetSystemParameters", StartingVlanId),
            Input("WireInternalsForHostEntity", "h1"),
            Input("WireSfcEntity", sfc.Name)>> : sfc \in OtherSfcs}

\* the controller starts with one of the configurations loaded
InitConfig ==
    /\ cnpd = NewSfcCtlrL2CNPDriver
    /\ db = EmptyMap
    /\ ids = EmptyIds
    /\ ipam = EmptyMap
    /\ ext = <<>>
    /\ panicked = FALSE
    /\ restarts = 0
    /\ cycles = 0
    /\ run \in {ConfigRun(input) : input \in Configs}

\* the controller applies configurations in full, is restarted, reloaded
\* and reconciled between passes
NextConfig ==
    \/ SetSystemParameters(SysParms)
    \/ WireInternalsForHostEntity("h1", 0)
    \/ WireHostEntityToDestinationHostEntity("h1", "h2")
    \/ WireHostEntityToExternalEntity("h1", "e1")
    \/ \E sfc \in ConfigSfcs : WireSfcEntity(sfc, 0)
    \/ \E input \in Configs : Load(input)
    \/ Restart
    \/ ReconcileStart
    \/ ReconcileEnd(0)

SpecConfig == InitConfig /\ [][NextConfig]_vars

\* east-west memif chains: one to four memif containers, a pair with one
\* repeated hop, a pair whose first element is an af-packet container, and
\* a pair with two repeated hops whose elements differ in their port label,
\* and two pairs with one repeated hop each
EwMemifSfcs ==
    {SfcEntity("ew1", SFC_EW_MEMIF,
        <<SfcElement("m1", "p1", "h1", VPP_CONTAINER_MEMIF)>>),
     SfcEntity("ew2", SFC_EW_MEMIF,
        <<SfcElement("m1", "p1", "h1", VPP_CONTAINER_MEMIF),
          SfcElement("m2", "p1", "h1", VPP_CONTAINER_MEMIF)>>),
     SfcEntity("ew3", SFC_EW_MEMIF,
        <<SfcElement("m1", "p2", "h1", VPP_CONTAINER_MEMIF),
          SfcElement("m2", "p2", "h1", NON_VPP_CONTAINER_MEMIF),
          SfcElement("m3", "p2", "h1", VPP_CONTAINER_MEMIF)>>),
     SfcEntity("ew4", SFC_EW_MEMIF,
        <<SfcElement("m1", "p3", "h1", VPP_CONTAINER_MEMIF),
          SfcElement("m2", "p3", "h1", VPP_CONTAINER_MEMIF),
          SfcElement("m3", "p3", "h1", NON_VPP_CONTAINER_MEMIF),
          SfcElement("m4", "p3", "h1", VPP_CONTAINER_MEMIF)>>),
     [SfcEntity("ewr", SFC_EW_MEMIF,
        <<SfcElement("m5", "p1", "h1", VPP_CONTAINER_MEMIF),
          SfcElement("m6", "p1", "h1", VPP_CONTAINER_MEMIF)>>)
         EXCEPT !.VnfRepeatCount = 1],
     SfcEntity("ewa", SFC_EW_MEMIF,
        <<SfcElement("a1", "p1", "h1", VPP_CONTAINER_AFP),
          SfcElement("m7", "p1", "h1", VPP_CONTAINER_MEMIF)>>),
     [SfcEntity("ewp", SFC_EW_MEMIF,
        <<SfcElement("m8", "p4", "h1", VPP_CONTAINER_MEMIF),
          SfcElement("m9", "p5", "h1", VPP_CONTAINER_MEMIF)>>)
         EXCEPT !.VnfRepeatCount = 2],
     [SfcEntity("ewq", SFC_EW_MEMIF,
        <<SfcElement("q3", "p6", "h1", VPP_CONTAINER_MEMIF),
          SfcElement("q4", "p7", "h1", VPP_CONTAINER_MEMIF),
          SfcElement("q5", "p6", "h1", VPP_CONTAINER_MEMIF),
          SfcElement("q6", "p7", "h1", VPP_CONTAINER_MEMIF)>>)
         EXCEPT !.VnfRepeatCount = 1]}

\* East-west memif wiring in one process lifetime
NextEW ==
    \/ SetSystemParameters(SysParms)
    \/ \E sfc \in EwMemifSfcs : WireSfcEntity(sfc, 0)

SpecEW == Init /\ [][NextEW]_vars

\* chains of every wiring style on host h1: the default dynamic bridge with
\* a memif and an af-packet container, a per-chain static bridge, a
\* cross-connect chain of two and of three containers, two containers
\* cross-connected to the same NIC, and one container cross-connected to a NIC
WireSfcs ==
    {SfcEntity("ebd", SFC_EW_BD,
        <<SfcElement("b1", "p1", "h1", VPP_CONTAINER_MEMIF),
          SfcElement("b2", "p1", "h1", NON_VPP_CONTAINER_AFP)>>),
     [SfcEntity("efib", SFC_EW_BD_L2FIB,
        <<[SfcElement("b3", "p1", "h1", VPP_CONTAINER_MEMIF) EXCEPT
               !.L2FibMacs = <<<<2, 0, 0, 0, 0, 3>>>>]>>)
         EXCEPT !.BdParms = "static"],
     SfcEntity("xc2", SFC_EW_L2XCONN,
        <<SfcElement("x4", "p1", "h1", VPP_CONTAINER_MEMIF),
          SfcElement("x5", "p1", "h1", VPP_CONTAINER_MEMIF)>>),
     SfcEntity("xc3", SFC_EW_L2XCONN,
        <<SfcElement("x1", "p1", "h1", VPP_CONTAINER_MEMIF),
          SfcElement("x2", "p1", "h1", VPP_CONTAINER_AFP),
          SfcElement("x3", "p1", "h1", VPP_CONTAINER_MEMIF)>>),
     SfcEntity("nxc", SFC_NS_NIC_L2XCONN,
        <<SfcElement("h1", "Gig4", "", HOST_ENTITY),
          SfcElement("n1", "p1", "h1", VPP_CONTAINER_MEMIF),
          SfcElement("n2", "p1", "h1", VPP_CONTAINER_MEMIF)>>),
     SfcEntity("nx1", SFC_NS_NIC_L2XCONN,
        <<SfcElement("h1", "Gig5", "", HOST_ENTITY),
          SfcElement("n3", "p1", "h1", VPP_CONTAINER_MEMIF)>>)}

\* the chains that the wiring specification applies
WiredSfcs ==
    Named(WireSfcs, {"ebd", "xc3", "nxc"}) \cup Named(OtherSfcs, {"vrf"})
    \cup Named(NsVxlanSfcs, {"ns1"})

\* Wiring of chains of every style in one process lifetime
NextWire ==
    \/ SetSystemParameters(SysParms)
    \/ WireInternalsForHostEntity("h1", 0)
    \/ WireHostEntityToExternalEntity("h1", "e1")
    \/ \E sfc \in WiredSfcs : WireSfcEntity(sfc, 0)

SpecWire == Init /\ [][NextWire]_vars

\* chains with an address prefix, joined to the default bridge of h1: a
\* container that declares an address outside the prefix; an auto-addressed
\* container followed by one that declares host-id 1 of the prefix; a
\* container that declares host-id 1 followed by an auto-addressed one; an
\* auto-addressed container in the prefix of the chain before; two memif
\* containers without address joined by a cross-connect
IpSfcs ==
    {[SfcEntity("ipo", SFC_EW_BD,
        <<[SfcElement("o1", "p1", "h1", VPP_CONTAINER_MEMIF) EXCEPT
               !.Ipv4Addr = Ip("10.0.70", 5, 24)]>>)
         EXCEPT !.SfcIpv4Prefix = "10.0.62"],
     [SfcEntity("ipa", SFC_EW_BD,
        <<SfcElement("a1", "p1", "h1", NON_VPP_CONTAINER_AFP),
          [SfcElement("a2", "p1", "h1", VPP_CONTAINER_MEMIF) EXCEPT
               !.Ipv4Addr = Ip("10.0.61", 1, 24)]>>)
         EXCEPT !.SfcIpv4Prefix = "10.0.61"],
     [SfcEntity("ipd", SFC_EW_BD,
        <<[SfcElement("d1", "p1", "h1", VPP_CONTAINER_MEMIF) EXCEPT
               !.Ipv4Addr = Ip("10.0.60", 1, 0)],
          SfcElement("d2", "p1", "h1", VPP_CONTAINER_MEMIF)>>)
         EXCEPT !.SfcIpv4Prefix = "10.0.60"],
     [SfcEntity("ipr", SFC_EW_BD,
        <<SfcElement("r1", "p1", "h1", VPP_CONTAINER_AFP)>>)
         EXCEPT !.SfcIpv4Prefix = "10.0.60"],
     [SfcEntity("ipx", SFC_EW_L2XCONN,
        <<SfcElement("q1", "p1", "h1", VPP_CONTAINER_MEMIF),
          SfcElement("q2", "p1", "h1", VPP_CONTAINER_MEMIF)>>)
         EXCEPT !.SfcIpv4Prefix = "10.0.63"]}

\* Wiring of chains with an address prefix in one process lifetime
NextIp ==
    \/ SetSystemParameters(SysParms)
    \/ WireInternalsForHostEntity("h1", 0)
    \/ \E sfc \in IpSfcs : WireSfcEntity(sfc, 0)

SpecIp == Init /\ [][NextIp]_vars

\* starting_vlan_id values the operator may set
VlanIdParms == {1, 2, StartingVlanId}

\* System parameters set more than once, around the wiring of an edge and of
\* north-south chains that take a VNI from the counter
NextParms ==
    \/ \E v \in VlanIdParms : SetSystemParameters([StartingVlanId |-> v])
    \/ \E h \in HostNames : WireInternalsForHostEntity(h, 0)
    \/ WireHostEntityToExternalEntity("h1", "e1")
    \/ \E sfc \in NsVxlanSfcs : WireSfcEntity(sfc, 0)

SpecParms == Init /\ [][NextParms]_vars

\* values of a counter of the sequencer: fresh, or advanced to the last uint32
CounterValues == {0, MaxUint32}

\* chains that take a VNI, memif ids, MAC-instance ids and a veth id
WrapSfcs == Named(NsVxlanSfcs, {"ns1"}) \cup Named(WireSfcs, {"ebd"})

\* a driver whose counters were advanced by earlier allocations
InitWrap ==
    /\ \E v \in CounterValues, m \in CounterValues, a \in CounterValues, e \in CounterValues :
           cnpd = [NewSfcCtlrL2CNPDriver EXCEPT
                      !.seq = [VLanID |-> v, MemIfID |-> m, MacInstanceID |-> a, VethID |-> e]]
    /\ db = EmptyMap
    /\ ids = EmptyIds
    /\ ipam = EmptyMap
    /\ ext = <<>>
    /\ panicked = FALSE
    /\ restarts = 0
    /\ cycles = 0
    /\ run = ApiRun

NextWrap ==
    \/ SetSystemParameters(SysParms)
    \/ WireInternalsForHostEntity("h1", 0)
    \/ WireHostEntityToExternalEntity("h1", "e1")
    \/ \E sfc \in WrapSfcs : WireSfcEntity(sfc, 0)

SpecWrap == InitWrap /\ [][NextWrap]_vars

\* north-south VXLAN chains that share an edge: two over h1 -> e1, the
\* second with two containers, and two over h1 -> h2
BridgeSfcs ==
    Named(NsVxlanSfcs, {"ns1", "ns3"})
    \cup {SfcEntity("nsb", SFC_NS_VXLAN,
              <<SfcElement("e1", "", "", EXTERNAL_ENTITY),
                SfcElement("k1", "p1", "h1", VPP_CONTAINER_MEMIF),
                SfcElement("k2", "p1", "h1", NON_VPP_CONTAINER_AFP)>>),
          SfcEntity("nsc", SFC_NS_VXLAN,
              <<SfcElement("h2", "", "", HOST_ENTITY),
                SfcElement("k3", "p1", "h1", VPP_CONTAINER_AFP)>>)}

\* Several chains wired over the same edge in one process lifetime
NextBridge ==
    \/ SetSystemParameters(SysParms)
    \/ WireHostEntityToDestinationHostEntity("h1", "h2")
    \/ WireHostEntityToExternalEntity("h1", "e1")
    \/ \E sfc \in BridgeSfcs : WireSfcEntity(sfc, 0)

SpecBridge == Init /\ [][NextBridge]_vars

\* the host pairs that can be wired
HostPairs == {p \in HostNames \X HostNames : p[1] # p[2]}

\* the store puts that the operation attempts when none fails
Puts(sfc) == WireSfcEntityOp(Begin(0), sfc).nput

\* north-south VXLAN chains over the edge h1 -> e1, whose host asks for a
\* static route, and over the edge h2 -> h1, whose host does not
EdgeSfcs == Named(NsVxlanSfcs, {"ns1", "ns4"})

\* no counter has been advanced MaxAllocs times yet, the VLAN counter
\* from 0 or from its seed
AllocsLeft ==
    /\ \/ cnpd.seq.VLanID < MaxAllocs
       \/ /\ cnpd.seq.VLanID >= StartingVlanId - 1
          /\ cnpd.seq.VLanID < StartingVlanId - 1 + MaxAllocs
    /\ cnpd.seq.MemIfID < MaxAllocs
    /\ cnpd.seq.MacInstanceID < MaxAllocs
    /\ cnpd.seq.VethID < MaxAllocs

\* the put of WireSfcEntity(sfc) that the store rejects (0: none), while
\* allocations are left
RejectedPuts(sfc) == IF AllocsLeft THEN 0..Puts(sfc) ELSE {}

\* Wiring of edges and of chains over them, the store rejecting any one put
\* of a WireSfcEntity call, and the caller wiring the chain again
NextEdge ==
    \/ SetSystemParameters(SysParms)
    \/ WireHostEntityToDestinationHostEntity("h2", "h1")
    \/ WireHostEntityToExternalEntity("h1", "e1")
    \/ \E sfc \in EdgeSfcs :
           \E f \in RejectedPuts(sfc) : WireSfcEntity(sfc, f)

SpecEdge == Init /\ [][NextEdge]_vars

\* cross-connect chains on host h1: of two, of three and of five containers,
\* memif and af-packet ones
PairSfcs ==
    Named(WireSfcs, {"xc2", "xc3"}) \cup Named(OtherSfcs, {"xc"})
    \cup {SfcEntity("xc5", SFC_EW_L2XCONN,
              <<SfcElement("y1", "p1", "h1", VPP_CONTAINER_MEMIF),
                SfcElement("y2", "p1", "h1", VPP_CONTAINER_AFP),
                SfcElement("y3", "p1", "h1", NON_VPP_CONTAINER_MEMIF),
                SfcElement("y4", "p1", "h1", VPP_CONTAINER_MEMIF),
                SfcElement("y5", "p1", "h1", NON_VPP_CONTAINER_AFP)>>)}

\* Wiring of cross-connect chains in one process lifetime
NextPair ==
    \/ SetSystemParameters(SysParms)
    \/ WireInternalsForHostEntity("h1", 0)
    \/ \E sfc \in PairSfcs : WireSfcEntity(sfc, 0)

SpecPair == Init /\ [][NextPair]_vars

\* bridged east-west chains on host h1: on the default dynamic bridge, with
\* and without bridge parameters; on the default static bridge; on a bridge
\* of their own
BdSfcs ==
    Named(WireSfcs, {"ebd", "efib"})
    \cup {[SfcEntity("ebp", SFC_EW_BD,
               <<SfcElement("g1", "p1", "h1", VPP_CONTAINER_MEMIF),
                 SfcElement("g2", "p1", "h1", VPP_CONTAINER_AFP)>>)
                EXCEPT !.BdParms = "static"],
          SfcEntity("ef0", SFC_EW_BD_L2FIB,
               <<SfcElement("g3", "p1", "h1", VPP_CONTAINER_MEMIF),
                 SfcElement("g4", "p1", "h1", NON_VPP_CONTAINER_AFP)>>),
          [SfcEntity("ef2", SFC_EW_BD_L2FIB,
               <<SfcElement("g5", "p1", "h1", NON_VPP_CONTAINER_MEMIF),
                 SfcElement("g6", "p1", "h1", VPP_CONTAINER_AFP)>>)
                EXCEPT !.BdParms = "static"]}

\* a chain with a bridge of its own whose name makes that bridge the
\* namesake of the default static bridge of the host
NamesakeSfcs ==
    {[SfcEntity("L2FIB", SFC_EW_BD_L2FIB,
         <<SfcElement("g7", "p1", "h1", VPP_CONTAINER_MEMIF)>>)
          EXCEPT !.BdParms = "dynamic"]}

\* Wiring of bridged east-west chains in one process lifetime
NextBd ==
    \/ SetSystemParameters(SysParms)
    \/ WireInternalsForHostEntity("h1", 0)
    \/ \E sfc \in BdSfcs : WireSfcEntity(sfc, 0)

SpecBd == Init /\ [][NextBd]_vars

\* Host h1, every edge of the two hosts, and chains over an edge to the
\* external entity, over an edge to a host and on the default bridge, wired
\* in one process lifetime
NextTwice ==
    \/ SetSystemParameters(SysParms)
    \/ WireInternalsForHostEntity("h1", 0)
    \/ \E p \in HostPairs : WireHostEntityToDestinationHostEntity(p[1], p[2])
    \/ \E he \in HostNames : WireHostEntityToExternalEntity(he, "e1")
    \/ \E sfc \in Named(NsVxlanSfcs, {"ns1", "ns3"}) \cup Named(WireSfcs, {"ebd"}) :
           WireSfcEntity(sfc, 0)

SpecTwice == Init /\ [][NextTwice]_vars


\* ------------------------------------------------------------------------
\* Properties
\* ------------------------------------------------------------------------

\* store key of the tunnel interface of the edge host -> external entity
H2ETunnelKey(he, ee) == Key(he, "interface", "IF_VXLAN_H2E_" \o he \o "_" \o ee)

\* C1: every call to the external-entity driver for (ee, he) carries the
\* VNI of the host-to-ee tunnel interface of that edge, as cached and as
\* written to the store
ExtEntityVniIsTunnelVni ==
    \A i \in 1..Len(ext) :
        LET c == ext[i]
            k == H2ETunnelKey(c.he, c.ee)
        IN /\ c.he \in DOMAIN cnpd.HEToEEs
           /\ c.ee \in DOMAIN cnpd.HEToEEs[c.he]
           /\ cnpd.HEToEEs[c.he][c.ee].vlanIf # <<>>
           /\ cnpd.HEToEEs[c.he][c.ee].vlanIf[1].Vni = c.vni
           /\ k \in DOMAIN db
           /\ db[k].Vni = c.vni

\* C1: the driver was called for both edges to e1: the one with a VNI from
\* the counter and the one with the explicit vlan_id, after the counter
\* moved on
ExtEntityCalledForBothEdges ==
    /\ \E i \in 1..Len(ext) : ext[i].he = "h1" /\ ext[i].ee = "e1" /\ ext[i].vni # StartingVlanId
    /\ \E i \in 1..Len(ext) : ext[i].he = "h2" /\ ext[i].ee = "e1" /\ ext[i].vni = StartingVlanId
    /\ cnpd.seq.VLanID > StartingVlanId

\* the bindings of one id kind as <<table, key, id>>
VniBindings(i) ==
    {<<"HE2EEIDs", k, i.HE2EEIDs[k]>> : k \in DOMAIN i.HE2EEIDs}
    \cup {<<"HE2HEIDs", k, i.HE2HEIDs[k]>> : k \in DOMAIN i.HE2HEIDs}

MemifBindings(i) == {<<"SFCIDs", k, i.SFCIDs[k].MemifId>> : k \in DOMAIN i.SFCIDs}

MacBindings(i) ==
    {<<"HEIDs", k, i.HEIDs[k]>> : k \in DOMAIN i.HEIDs}
    \cup {<<"SFCIDs", k, i.SFCIDs[k].MacAddrId>> : k \in DOMAIN i.SFCIDs}

VethBindings(i) == {<<"SFCIDs", k, i.SFCIDs[k].VethId>> : k \in DOMAIN i.SFCIDs}

\* no nonzero id is bound to two keys
NoIdBoundTwice(B) == \A a, b \in B : (a[3] # 0 /\ a[3] = b[3]) => a = b

\* C2: within each id kind (VNI, memif id, MAC-instance id, veth id) no
\* nonzero id is persisted for two different binding keys
IdsNeverShared ==
    /\ NoIdBoundTwice(VniBindings(ids))
    /\ NoIdBoundTwice(MemifBindings(ids))
    /\ NoIdBoundTwice(MacBindings(ids))
    /\ NoIdBoundTwice(VethBindings(ids))

\* the state cache of the driver (l2CNPStateCache) with the bridge objects
\* its entries point to
StateCache(c) ==
    [HEToEEs |-> c.HEToEEs, HEToHEs |-> c.HEToHEs, SFCToHEs |-> c.SFCToHEs,
     HE |-> c.HE, SFCIFAddr |-> c.SFCIFAddr, bdObjs |-> c.bdObjs]

\* the operation that led to d returned an error and wrote nothing: no
\* store write, no id bound, no counter moved, no state-cache change
RejectedWithoutEffect(d) ==
    /\ d.err
    /\ ~d.panic
    /\ d.ops = <<>>
    /\ d.db = db
    /\ d.ids = ids
    /\ d.ipam = ipam
    /\ d.ext = ext
    /\ d.c.seq = cnpd.seq
    /\ StateCache(d.c) = StateCache(cnpd)

\* C9: from every reachable state, WireSfcEntity on a north-south VXLAN
\* chain with two external entities, two destination hosts or neither
\* returns an error and writes nothing, allocates no id and leaves the
\* state cache as it was
BadNsVxlanRejected ==
    \A sfc \in BadNsVxlanSfcs : RejectedWithoutEffect(WireSfcEntityOp(Begin(0), sfc))

\* C9: all three malformed chains were submitted to a driver that has both
\* kinds of edge wired and resources in the store, where a chain to e1 or
\* to a destination host would be wired
BadNsVxlanSubmitted ==
    /\ {sfc.Name : sfc \in BadNsVxlanSfcs} \subseteq cnpd.SFCs
    /\ "h1" \in DOMAIN cnpd.HEToEEs /\ "e1" \in DOMAIN cnpd.HEToEEs["h1"]
    /\ "h1" \in DOMAIN cnpd.HEToHEs /\ "h2" \in DOMAIN cnpd.HEToHEs["h1"]
    /\ {"h1", "h2"} \subseteq cnpd.HEs /\ "e1" \in cnpd.EEs
    /\ DOMAIN db # {}
    /\ cnpd.seq.MemIfID > 0

\* the bindings that the operation leading to d wrote into the tables
IdWrites(d, tables) ==
    {d.ops[i] : i \in {j \in 1..Len(d.ops) :
                          d.ops[j].sink = "ids" /\ d.ops[j].key[1] \in tables}}

\* the binding persisted under the key of the write w, <<>> if none
Persisted(w) == DatastoreRetrieve([ids |-> ids], w.key[1], w.key[2])

\* the partner element of the chain carries an explicit vlan_id
ExplicitVlan(sfc) ==
    \E i \in 1..Len(sfc.Elements) :
        /\ sfc.Elements[i].Type \in {EXTERNAL_ENTITY, HOST_ENTITY}
        /\ sfc.Elements[i].VlanId # 0

\* the operation leading to d used the persisted id wherever one was bound,
\* and left a counter alone when every id of its kind was bound: W are the
\* writes of the kind, Id(v) the id in a binding v, counter the counter
ReusedPersisted(W, Id(_), before, after) ==
    /\ \A w \in W :
           (Persisted(w) # <<>> /\ Id(Persisted(w)[1]) # 0 /\ Id(w.val) # 0)
               => Id(w.val) = Id(Persisted(w)[1])
    /\ (W # {} /\ \A w \in W : Persisted(w) # <<>> /\ Id(Persisted(w)[1]) # 0)
           => after = before

IdOf(v) == v
MemifIdOf(v) == v.MemifId
MacAddrIdOf(v) == v.MacAddrId
VethIdOf(v) == v.VethId

\* C3: from every reachable state, wiring a chain or a host whose key has
\* a nonzero binding persisted, and no explicit value in the input, uses
\* the persisted id (host-to-ee VNI, host-to-host VNI, memif id, MAC id,
\* veth id, loopback MAC id) and does not increment the counter
PersistedBindingReused ==
    /\ \A sfc \in Named(NsVxlanSfcs, {"ns1", "ns2", "ns3"}) :
           Bind(WireSfcEntityOp(Begin(0), sfc), LAMBDA d :
           Bind(IdWrites(d, {"SFCIDs"}), LAMBDA sfcIDs :
              /\ ~ExplicitVlan(sfc) =>
                     ReusedPersisted(IdWrites(d, {"HE2EEIDs", "HE2HEIDs"}), IdOf,
                                     cnpd.seq.VLanID, d.c.seq.VLanID)
              /\ ReusedPersisted(sfcIDs, MemifIdOf, cnpd.seq.MemIfID, d.c.seq.MemIfID)
              /\ ReusedPersisted(sfcIDs, MacAddrIdOf, cnpd.seq.MacInstanceID,
                                 d.c.seq.MacInstanceID)
              /\ ReusedPersisted(sfcIDs, VethIdOf, cnpd.seq.VethID, d.c.seq.VethID)))
    /\ Bind(WireInternalsForHostEntityOp(Begin(0), "h1"), LAMBDA d :
          ReusedPersisted(IdWrites(d, {"HEIDs"}), IdOf, cnpd.seq.MacInstanceID,
                          d.c.seq.MacInstanceID))

\* the ids that the step allocated from a counter: newly bound values in
\* the range the counter moved over
Allocated(old, new, before, after) ==
    {b[3] : b \in new \ old} \cap ((before + 1)..after)

\* every id the step allocated is greater than every id bound before it
AboveBound(old, new, before, after) ==
    \A a \in Allocated(old, new, before, after) : \A b \in old : a > b[3]

\* C4: after a restart every newly allocated id is greater than every id
\* of its kind (VNI, memif id, MAC-instance id, veth id) that is bound
NewIdsAboveBound ==
    [][restarts >= 1 =>
         /\ AboveBound(VniBindings(ids), VniBindings(ids'),
                       cnpd.seq.VLanID, cnpd'.seq.VLanID)
         /\ AboveBound(MemifBindings(ids), MemifBindings(ids'),
                       cnpd.seq.MemIfID, cnpd'.seq.MemIfID)
         /\ AboveBound(MacBindings(ids), MacBindings(ids'),
                       cnpd.seq.MacInstanceID, cnpd'.seq.MacInstanceID)
         /\ AboveBound(VethBindings(ids), VethBindings(ids'),
                       cnpd.seq.VethID, cnpd'.seq.VethID)]_vars

\* C5: when the pass that applied the same configuration once more is
\* complete, the four binding tables are what the pass before left
SecondRunKeepsBindings ==
    (Complete /\ run.same) => ids = run.ids1

\* the operation that an entry of a configuration asks for
InputOp(d, in) ==
    IF in.op = "SetSystemParameters" THEN SetSystemParametersOp(d, SysParms)
    ELSE IF in.op = "WireInternalsForHostEntity"
    THEN WireInternalsForHostEntityOp(d, in.arg)
    ELSE IF in.op = "WireHostEntityToDestinationHostEntity"
    THEN WireHostEntityToDestinationHostEntityOp(d, in.arg[1], in.arg[2])
    ELSE IF in.op = "WireHostEntityToExternalEntity"
    THEN WireHostEntityToExternalEntityOp(d, in.arg[1], in.arg[2])
    ELSE WireSfcEntityOp(d, CHOOSE sfc \in ConfigSfcs : sfc.Name = in.arg)

RECURSIVE ApplyInputs(_, _)
ApplyInputs(d, input) ==
    IF input = <<>> THEN d
    ELSE ApplyInputs(InputOp(d, Head(input)), Tail(input))

\* the target set of a configuration: the keys that wiring it derives on
\* an empty store
TargetKeys(input) ==
    DOMAIN ApplyInputs([Begin(0) EXCEPT !.c = NewSfcCtlrL2CNPDriver, !.db = EmptyMap,
                                        !.ipam = EmptyMap, !.ext = <<>>], input).db

\* C6: when a reconcile cycle has ended, the keys of the derived resources
\* in the store are the target set of the configuration, for every
\* resource kind
StoreKeysAreTargetAfterCycle ==
    run.cycle = "done" => DOMAIN db = TargetKeys(run.input)

\* C7: a reconcile cycle that re-applies the configuration the store was
\* derived from puts nothing into the store and deletes nothing from it
UnchangedInputWritesNothing ==
    (run.cycle = "done" /\ run.cycleSame) => run.writes = {}

\* C8: while a reconcile cycle is running, the only keys that a wiring
\* operation has put into the store itself are static ARP entries
OnlyArpBypassesAfterBuffer ==
    run.cycle = "running" =>
        \A w \in run.writes : w[1] = "store" => w[2][2] = "arp"

\* the writes of the operation leading to d that carry the interface of the
\* element's port in its container
PortWrites(d, e) ==
    {j \in 1..Len(d.ops) : /\ d.ops[j].sink \in {"store", "after"}
                           /\ d.ops[j].key = Key(e.Container, "interface", e.PortLabel)}

\* the operation leading to d made the element one end of one
\* inter-container memif pair, the master end or the other
PairEnd(d, e, master) ==
    /\ Cardinality(PortWrites(d, e)) = 1
    /\ \A j \in PortWrites(d, e) :
           /\ d.ops[j].val.Type = "MEMORY_INTERFACE"
           /\ d.ops[j].val.Master = master

\* the operation leading to d paired the two elements; without repeated
\* hops the two ends share the memif id and the socket of the first
InterContainerPair(d, sfc, left, right) ==
    /\ PairEnd(d, left, TRUE)
    /\ PairEnd(d, right, FALSE)
    /\ sfc.VnfRepeatCount = 0 =>
           \A j \in PortWrites(d, left) : \A k \in PortWrites(d, right) :
               /\ d.ops[j].val.MemifId = d.ops[k].val.MemifId
               /\ d.ops[j].val.SocketFilename = d.ops[k].val.SocketFilename

\* the operation returned an error and left the store, the bindings and
\* the counters as they were
OddCountRejected(d) ==
    /\ d.err
    /\ d.ops = <<>>
    /\ d.db = db /\ d.ids = ids
    /\ d.c.seq = cnpd.seq

\* the operation paired the elements two by two, in order
PairedInOrder(d, sfc) ==
    /\ ~Failed(d)
    /\ \A i \in 0..(Len(sfc.Elements) - 1) :
           i % 2 = 0 => InterContainerPair(d, sfc, sfc.Elements[i + 1], sfc.Elements[i + 2])

\* C10: from every reachable state, WireSfcEntity on an east-west memif
\* chain with an odd number of elements returns an error and creates no
\* interface and allocates no id; on a chain with an even number it makes
\* every element one end of exactly one pair (element[i], element[i+1]),
\* i even
EwMemifChainsPairUp ==
    \A sfc \in EwMemifSfcs :
        Bind(WireSfcEntityOp(Begin(0), sfc), LAMBDA d :
            IF Len(sfc.Elements) % 2 # 0 THEN OddCountRejected(d)
            ELSE PairedInOrder(d, sfc))

\* ------------------------------------------------------------------------
\* Attachment of the containers of a chain
\* ------------------------------------------------------------------------

\* the chains whose wiring is examined from every state
AttachSfcs ==
    WireSfcs \cup OtherSfcs \cup Named(NsVxlanSfcs, {"ns1"})
    \cup Named(EwMemifSfcs, {"ew2", "ew4"})

IsContainer(e) == IsAFP(e) \/ IsMemIf(e)

\* the vswitch-end interfaces of the element in the store
VSwitchIfs(store, e) ==
    {n \in {"IF_MEMIF_VSWITCH_" \o e.Container \o "_" \o e.PortLabel,
            "IF_AFPIF_VSWITCH_" \o e.Container \o "_" \o e.PortLabel} :
        Key(e.EtcdVppSwitchKey, "interface", n) \in DOMAIN store}

\* the bridge domains of the switch that hold the interface
BridgesOf(store, sw, n) ==
    {k \in DOMAIN store : k[1] = sw /\ k[2] = "bd" /\ n \in SeqToSet(store[k].Interfaces)}

\* the interfaces that a cross-connect of the switch joins to the interface
XConnPeers(store, sw, n) ==
    LET xs == {k \in DOMAIN store : k[1] = sw /\ k[2] = "xconnect"}
    IN {store[k].TransmitInterface : k \in {x \in xs : store[x].ReceiveInterface = n}}
       \cup {store[k].ReceiveInterface : k \in {x \in xs : store[x].TransmitInterface = n}}

\* the element has nIf vswitch-end interfaces, each in nBd bridges and
\* cross-connected to nXc interfaces
Attached(store, e, nIf, nBd, nXc) ==
    /\ Cardinality(VSwitchIfs(store, e)) = nIf
    /\ \A n \in VSwitchIfs(store, e) :
           /\ Cardinality(BridgesOf(store, e.EtcdVppSwitchKey, n)) = nBd
           /\ Cardinality(XConnPeers(store, e.EtcdVppSwitchKey, n)) = nXc

\* one vswitch-end interface, in one bridge or in one cross-connect pair
BridgedOrCrossConnected(store, e) ==
    Attached(store, e, 1, 1, 0) \/ Attached(store, e, 1, 0, 1)

AttachedByType(store, sfc, i) ==
    LET e == sfc.Elements[i] IN
    IF sfc.Type \in {SFC_NS_VXLAN, SFC_NS_NIC_BD, SFC_EW_BD, SFC_EW_BD_L2FIB}
    THEN Attached(store, e, 1, 1, 0)
    ELSE IF sfc.Type = SFC_NS_NIC_L2XCONN THEN Attached(store, e, 1, 0, 1)
    ELSE IF sfc.Type = SFC_EW_L2XCONN
    THEN IF i = Len(sfc.Elements) /\ i % 2 = 1
         THEN Attached(store, e, 1, 0, 0)
         ELSE Attached(store, e, 1, 0, 1)
    ELSE IF sfc.Type = SFC_NS_NIC_VRF THEN Attached(store, e, 1, 0, 0)
    ELSE IsMemIf(e) => Attached(store, e, 0, 0, 0)

ContainerIfKeys(e) ==
    {Key(e.Container, "interface", e.PortLabel),
     Key(e.EtcdVppSwitchKey, "linuxif", "IF_VETH_VNF_" \o e.Container \o "_" \o e.PortLabel)}

\* the IPv4 addresses on the container-side interface of the element
ContainerAddrs(store, e) ==
    {store[k].IpAddress : k \in ContainerIfKeys(e) \cap DOMAIN store} \ {NoIp}

\* C12: from every reachable state, after WireSfcEntity succeeded on a chain
\* whose sfc_ipv4_prefix is set, every IPv4 address on a container-side
\* interface of the chain lies inside that prefix
ContainerAddrsInsidePrefix ==
    \A sfc \in IpSfcs :
        Bind(WireSfcEntityOp(Begin(0), sfc), LAMBDA d :
            ~Failed(d) =>
                \A i \in DOMAIN sfc.Elements :
                    \A a \in ContainerAddrs(d.db, sfc.Elements[i]) :
                        a.net = sfc.SfcIpv4Prefix)

\* ------------------------------------------------------------------------
\* Cross-connects
\* ------------------------------------------------------------------------

\* every cross-connect of the store has its mirror on the same switch
XConnSymmetric(store) ==
    LET xs == {k \in DOMAIN store : k[2] = "xconnect"}
    IN \A k \in xs :
           \E m \in xs :
               /\ m[1] = k[1]
               /\ store[m].ReceiveInterface = store[k].TransmitInterface
               /\ store[m].TransmitInterface = store[k].ReceiveInterface

\* the chains wired with cross-connects
XConnSfcs ==
    Named(WireSfcs, {"xc2", "xc3", "nxc", "nx1"}) \cup Named(OtherSfcs, {"xc"})

\* C13: in every reachable state of the store, and in the store that
\* WireSfcEntity leaves whichever of its puts the store rejects, a
\* cross-connect (rx=a, tx=b) is present iff (rx=b, tx=a) is present on the
\* same switch
CrossConnectsMirrored ==
    /\ XConnSymmetric(db)
    /\ \A sfc \in XConnSfcs :
           \A f \in 0..Puts(sfc) :
               XConnSymmetric(WireSfcEntityOp(Begin(f), sfc).db)

\* ------------------------------------------------------------------------
\* Members of the bridge domains
\* ------------------------------------------------------------------------

\* no name occurs twice in the list
NoDuplicates(ifs) == \A i, j \in DOMAIN ifs : i # j => ifs[i] # ifs[j]

\* the bridge-domain records that the operation leading to d wrote
BdWrites(d) == {d.ops[i].val : i \in {j \in DOMAIN d.ops : d.ops[j].key[2] = "bd"}}

\* the bridge-domain objects of the state cache and the records of the store
BdRecords(c, store) ==
    {c.bdObjs[r] : r \in DOMAIN c.bdObjs}
    \cup {store[k] : k \in {x \in DOMAIN store : x[2] = "bd"}}

\* C14: in every reachable state no bridge-domain object of the state cache
\* and no bridge-domain record of the store lists an interface twice, and
\* neither does any record that WireSfcEntity writes or leaves in the cache
\* when it is called again, on a chain already wired or on any other
BridgeMembersAreDistinct ==
    /\ \A bd \in BdRecords(cnpd, db) : NoDuplicates(bd.Interfaces)
    /\ \A sfc \in AttachSfcs :
           Bind(WireSfcEntityOp(Begin(0), sfc), LAMBDA d :
               \A bd \in BdWrites(d) \cup BdRecords(d.c, d.db) :
                   NoDuplicates(bd.Interfaces))

\* C14: the two containers of chain ebd are members of the default bridge
\* of h1 and the container of ns1 is a member of the bridge of its edge, so
\* wiring these chains again associates interfaces the bridges already hold
BridgedChainsAlreadyWired ==
    /\ Key("h1", "bd", "BD_INTERNAL_EW_h1") \in DOMAIN db
    /\ {"IF_MEMIF_VSWITCH_b1_p1", "IF_AFPIF_VSWITCH_b2_p1"}
           \subseteq SeqToSet(db[Key("h1", "bd", "BD_INTERNAL_EW_h1")].Interfaces)
    /\ Key("h1", "bd", "BD_H2E_h1_e1") \in DOMAIN db
    /\ "IF_MEMIF_VSWITCH_c1_p1" \in SeqToSet(db[Key("h1", "bd", "BD_H2E_h1_e1")].Interfaces)

\* ------------------------------------------------------------------------
\* Calls to the external-entity driver
\* ------------------------------------------------------------------------

\* number of calls made to the external-entity driver for the edge
ExtCalls(x, ee, he) == Cardinality({i \in DOMAIN x : x[i].ee = ee /\ x[i].he = he})

\* the bridge of the edge host -> external entity has been created
ExtBridgeCreated(c, he, ee) ==
    /\ he \in DOMAIN c.HEToEEs
    /\ ee \in DOMAIN c.HEToEEs[he]
    /\ c.HEToEEs[he][ee].bd # <<>>

\* one call for every edge whose bridge exists, none for any other edge
ExtCallsMatchBridges(c, x) ==
    \A he \in HostNames, ee \in EENames :
        ExtCalls(x, ee, he) = IF ExtBridgeCreated(c, he, ee) THEN 1 ELSE 0

\* C15: in every reachable state, and in the state that WireSfcEntity leaves
\* whichever of its puts the store rejects (the ee-to-host route included),
\* the external-entity driver has been called exactly once for every edge
\* (ee, he) whose bridge has been created and never for any other edge
ExtDriverCalledOncePerBridge ==
    /\ ExtCallsMatchBridges(cnpd, ext)
    /\ \A sfc \in NsVxlanSfcs :
           \A f \in 0..Puts(sfc) :
               Bind(WireSfcEntityOp(Begin(f), sfc), LAMBDA d :
                   ~d.panic => ExtCallsMatchBridges(d.c, d.ext))

\* ------------------------------------------------------------------------
\* Seeding of the VLAN counter
\* ------------------------------------------------------------------------

\* system parameters have been set on this driver
SysParmsSet(c) == c.SysParms.StartingVlanId # 0

\* C16: once system parameters have been set, a further SetSystemParameters
\* call leaves the VLAN counter as it is, whatever starting_vlan_id it carries
VlanCounterSeededOnce ==
    SysParmsSet(cnpd) =>
        \A v \in VlanIdParms :
            SetSystemParametersOp(Begin(0), [StartingVlanId |-> v]).c.seq.VLanID
                = cnpd.seq.VLanID

\* ------------------------------------------------------------------------
\* Chains that reference a host or an external entity that was never wired
\* ------------------------------------------------------------------------

\* hosts the chain references: etcd_vpp_switch_key of its containers and the
\* container of its HOST_ENTITY elements
RefHosts(sfc) ==
    {e.EtcdVppSwitchKey : e \in {x \in SeqToSet(sfc.Elements) : IsContainer(x)}}
    \cup {e.Container : e \in {x \in SeqToSet(sfc.Elements) : x.Type = HOST_ENTITY}}

\* external entities the chain references
RefEEs(sfc) ==
    {e.Container : e \in {x \in SeqToSet(sfc.Elements) : x.Type = EXTERNAL_ENTITY}}

\* the chain references a host that WireInternalsForHostEntity never wired, or
\* an external entity that no host was wired to
Dangling(c, sfc) ==
    \/ \E h \in RefHosts(sfc) : h \notin DOMAIN c.HE
    \/ \E ee \in RefEEs(sfc) :
           \A h \in DOMAIN c.HEToEEs : ee \notin DOMAIN c.HEToEEs[h]

\* C17: WireSfcEntity on a chain of any type that references a host or an
\* external entity that was never wired returns an error and writes nothing
DanglingReferenceIsAnError ==
    \A sfc \in AttachSfcs :
        Dangling(cnpd, sfc) =>
            Bind(WireSfcEntityOp(Begin(0), sfc), LAMBDA d :
                d.err /\ ~d.panic /\ d.ops = <<>>)

\* ------------------------------------------------------------------------
\* Propagation of store errors
\* ------------------------------------------------------------------------

\* the operation stopped at the put that the store rejected and returned the
\* error
StoppedAtRejectedPut(d) == d.err /\ d.nput = d.failAt

\* C18: whichever put the store rejects inside WireInternalsForHostEntity,
\* WireHostEntityToExternalEntity or WireSfcEntity, the operation returns an
\* error and attempts no further put
StoreErrorsPropagate ==
    /\ \A h \in HostNames :
           \A f \in 1..WireInternalsForHostEntityOp(Begin(0), h).nput :
               Bind(WireInternalsForHostEntityOp(Begin(f), h), LAMBDA d :
                   ~d.panic => StoppedAtRejectedPut(d))
    /\ \A he \in HostNames, ee \in EENames :
           \A f \in 1..WireHostEntityToExternalEntityOp(Begin(0), he, ee).nput :
               Bind(WireHostEntityToExternalEntityOp(Begin(f), he, ee), LAMBDA d :
                   ~d.panic => StoppedAtRejectedPut(d))
    /\ \A sfc \in AttachSfcs :
           \A f \in 1..Puts(sfc) :
               Bind(WireSfcEntityOp(Begin(f), sfc), LAMBDA d :
                   ~d.panic => StoppedAtRejectedPut(d))

\* ------------------------------------------------------------------------
\* VNI of the tunnels between two hosts
\* ------------------------------------------------------------------------

\* store key of the tunnel interface that host a holds towards host b
H2HTunnelKey(a, b) == Key(a, "interface", "IF_VXLAN_H2H_" \o a \o "_" \o b)

\* C19: when two hosts hold tunnel interfaces towards each other, the one from
\* a to b and the one from b to a carry the same VNI
BothDirectionsShareVni ==
    \A a \in HostNames, b \in HostNames :
        (a # b /\ H2HTunnelKey(a, b) \in DOMAIN db /\ H2HTunnelKey(b, a) \in DOMAIN db)
            => db[H2HTunnelKey(a, b)].Vni = db[H2HTunnelKey(b, a)].Vni

\* ------------------------------------------------------------------------
\* Declared and auto-allocated addresses of one prefix
\* ------------------------------------------------------------------------

\* the elements of the chains that carry an address prefix
IpElements == UNION {SeqToSet(sfc.Elements) : sfc \in IpSfcs}

\* the two addresses are the same host of the same network
SameHost(a1, a2) == a1.net = a2.net /\ a1.host = a2.host

\* C20: in whatever order the chains and their elements were wired, no two
\* container interfaces of different elements hold the same host-id of one
\* prefix, whether the address was declared or auto-allocated
NoSharedContainerAddr ==
    \A e1 \in IpElements, e2 \in IpElements :
        e1.Container # e2.Container =>
            \A a1 \in ContainerAddrs(db, e1), a2 \in ContainerAddrs(db, e2) :
                ~SameHost(a1, a2)

\* ------------------------------------------------------------------------
\* Exhaustion of the id counters
\* ------------------------------------------------------------------------

\* the counters of the sequencer
CounterNames == {"VLanID", "MemIfID", "MacInstanceID", "VethID"}

\* C21: a counter that stands at the largest uint32 value is left there by
\* every operation: no allocation moves it on to 0 or to any other value
CountersNeverWrap ==
    [][\A k \in CounterNames :
           cnpd.seq[k] = MaxUint32 => cnpd'.seq[k] = MaxUint32]_vars

\* ------------------------------------------------------------------------
\* The default bridges of a host
\* ------------------------------------------------------------------------

\* the state an operation left, handed to the next operation of the caller
Again(d) ==
    [d EXCEPT !.c = Collect(d.c), !.err = FALSE, !.ret = <<>>, !.ops = <<>>,
              !.nput = 0, !.failAt = 0]

\* HE[h] holds the dynamic and the static bridge and both records are in
\* the store
BothBridges(d, h) ==
    /\ h \in DOMAIN d.c.HE
    /\ d.c.HE[h].ewBD # <<>>
    /\ d.c.HE[h].ewBDL2Fib # <<>>
    /\ Key(h, "bd", "BD_INTERNAL_EW_" \o h) \in DOMAIN d.db
    /\ Key(h, "bd", "BD_INTERNAL_EW_L2FIB_" \o h) \in DOMAIN d.db

\* C22: a WireInternalsForHostEntity(h) call that returns nil leaves both
\* default bridges in HE[h] and in the store, from every reachable state and
\* also when it follows a call for h in which the store rejected a put
HostWiredHoldsBothBridges ==
    \A h \in HostNames :
        /\ Bind(WireInternalsForHostEntityOp(Begin(0), h), LAMBDA d :
               (~d.err /\ ~d.panic) => BothBridges(d, h))
        /\ \A f \in 1..WireInternalsForHostEntityOp(Begin(0), h).nput :
               Bind(WireInternalsForHostEntityOp(Begin(f), h), LAMBDA d1 :
                   ~d1.panic =>
                       Bind(WireInternalsForHostEntityOp(Again(d1), h), LAMBDA d2 :
                           (~d2.err /\ ~d2.panic) => BothBridges(d2, h)))

\* ------------------------------------------------------------------------
\* Recording of edges
\* ------------------------------------------------------------------------

\* the operation wrote nothing to the store and moved no counter
NothingWritten(d) ==
    /\ d.db = db
    /\ d.ids = ids
    /\ d.ops = <<>>
    /\ d.nput = 0
    /\ d.c.seq = cnpd.seq

\* the edge a -> b has an entry in the edge map
EdgeRecorded(m, a, b) == a \in DOMAIN m /\ b \in DOMAIN m[a]

\* the edge a -> b is recorded in new: as it was in old when old had it, with
\* tunnel, route and bridge absent otherwise
EdgeKeptOrAdded(old, new, a, b) ==
    /\ EdgeRecorded(new, a, b)
    /\ new[a][b] = IF EdgeRecorded(old, a, b) THEN old[a][b] ELSE EdgeState

\* WireHostEntityToDestinationHostEntity writes nothing and records the edge
HostPairRecorded ==
    \A p \in HostPairs :
        Bind(WireHostEntityToDestinationHostEntityOp(Begin(0), p[1], p[2]), LAMBDA d :
            /\ ~d.err
            /\ NothingWritten(d)
            /\ EdgeKeptOrAdded(cnpd.HEToHEs, d.c.HEToHEs, p[1], p[2]))

\* C23 as stated: both operations write nothing and leave the counters alone;
\* a new edge gets an entry with tunnel, route and bridge absent, a recorded
\* edge keeps its entry
EdgesRecordedWithoutWrites ==
    /\ HostPairRecorded
    /\ \A he \in HostNames, ee \in EENames :
           Bind(WireHostEntityToExternalEntityOp(Begin(0), he, ee), LAMBDA d :
               /\ NothingWritten(d)
               /\ EdgeKeptOrAdded(cnpd.HEToEEs, d.c.HEToEEs, he, ee))

\* the external entity carries the host interface and the host vxlan
\* configuration
ValidExtEntity(ee) == ExtEntities[ee].HostInterface /\ ExtEntities[ee].HostVxlan

\* C23 amended: as stated for host pairs and for external entities with host
\* interface and vxlan configuration; for an external entity without them
\* WireHostEntityToExternalEntity returns an error, writes nothing and
\* records no edge
EdgesRecordedUnlessInvalid ==
    /\ HostPairRecorded
    /\ \A he \in HostNames, ee \in EENames :
           Bind(WireHostEntityToExternalEntityOp(Begin(0), he, ee), LAMBDA d :
               /\ NothingWritten(d)
               /\ IF ValidExtEntity(ee)
                  THEN ~d.err /\ EdgeKeptOrAdded(cnpd.HEToEEs, d.c.HEToEEs, he, ee)
                  ELSE d.err /\ d.c.HEToEEs = cnpd.HEToEEs)

\* both kinds of edge are recorded and an SFC has created their tunnels and
\* bridges, and the rejected external entity has been offered
RecordedEdgesPopulated ==
    /\ EdgeRecorded(cnpd.HEToHEs, "h1", "h2")
    /\ cnpd.HEToHEs["h1"]["h2"].vlanIf # <<>>
    /\ cnpd.HEToHEs["h1"]["h2"].bd # <<>>
    /\ EdgeRecorded(cnpd.HEToEEs, "h1", "e1")
    /\ cnpd.HEToEEs["h1"]["e1"].vlanIf # <<>>
    /\ cnpd.HEToEEs["h1"]["e1"].bd # <<>>
    /\ "e2" \in cnpd.EEs

\* ------------------------------------------------------------------------
\* Sub-resources of an edge
\* ------------------------------------------------------------------------

\* the sub-resources of an edge entry
EdgeFields == {"vlanIf", "l3Route", "bd"}

\* every sub-resource that old holds is held unchanged by new
ForwardOnly(old, new) ==
    \A a \in DOMAIN old :
        \A b \in DOMAIN old[a] :
            \A f \in EdgeFields :
                old[a][b][f] # <<>> =>
                    EdgeRecorded(new, a, b) /\ new[a][b][f] = old[a][b][f]

\* C24: in every step, also one in which the store rejects a put, a tunnel,
\* route or bridge that an edge entry of HEToEEs or HEToHEs holds stays in
\* the entry as the same object
EdgeResourcesOnlyAppear ==
    [][/\ ForwardOnly(cnpd.HEToEEs, cnpd'.HEToEEs)
       /\ ForwardOnly(cnpd.HEToHEs, cnpd'.HEToHEs)]_vars

\* the edge entry holds its tunnel and its bridge, and its route when the
\* host asks for one
EdgeComplete(m, a, b) ==
    /\ EdgeRecorded(m, a, b)
    /\ m[a][b].vlanIf # <<>>
    /\ m[a][b].bd # <<>>
    /\ Hosts[a].CreateVxlanStaticRoute => m[a][b].l3Route # <<>>

\* chains have been wired over both edges and each edge holds its tunnel,
\* its bridge and, on h1, its route
BothEdgesComplete ==
    /\ EdgeComplete(cnpd.HEToEEs, "h1", "e1")
    /\ EdgeComplete(cnpd.HEToHEs, "h2", "h1")

\* ------------------------------------------------------------------------
\* Order of the writes of an edge
\* ------------------------------------------------------------------------

\* the partners of a host: external entities and other hosts
Partners(h) == EENames \cup (HostNames \ {h})

\* "H2E" for an edge to an external entity, "H2H" for one to a host
EdgeKind(p) == IF p \in EENames THEN "H2E" ELSE "H2H"

\* name of the tunnel interface of the edge h -> p
EdgeTunnelName(h, p) == "IF_VXLAN_" \o EdgeKind(p) \o "_" \o h \o "_" \o p

\* store keys of the tunnel interface and of the bridge of the edge h -> p
EdgeTunnelKey(h, p) == Key(h, "interface", EdgeTunnelName(h, p))

EdgeBridgeKey(h, p) == Key(h, "bd", "BD_" \o EdgeKind(p) \o "_" \o h \o "_" \o p)

\* the static route of the edge h -> p is in the store
EdgeRouteWritten(store, h, p) ==
    \E k \in DOMAIN store :
        /\ k[1] = h
        /\ k[2] = "route"
        /\ store[k].Description = "IF_STATIC_ROUTE_" \o EdgeKind(p) \o "_" \o p

\* what the store and the external-entity driver hold of the edge h -> p was
\* written in the order tunnel, route (when enabled), bridge, driver call
EdgeWrittenInOrder(store, x, h, p) ==
    /\ EdgeRouteWritten(store, h, p) => EdgeTunnelKey(h, p) \in DOMAIN store
    /\ EdgeBridgeKey(h, p) \in DOMAIN store =>
           /\ EdgeTunnelKey(h, p) \in DOMAIN store
           /\ EdgeTunnelName(h, p) \in SeqToSet(store[EdgeBridgeKey(h, p)].Interfaces)
           /\ Hosts[h].CreateVxlanStaticRoute => EdgeRouteWritten(store, h, p)
    /\ ExtCalls(x, p, h) > 0 => EdgeBridgeKey(h, p) \in DOMAIN store

\* C25: in every reachable state, those left by an attempt in which the
\* store rejected a put and by the attempts that follow it included, no edge
\* has its route without its tunnel, its bridge without its tunnel as member
\* or without its route (when enabled), or its driver call without its bridge
EdgeWritesInOrder ==
    \A h \in HostNames : \A p \in Partners(h) : EdgeWrittenInOrder(db, ext, h, p)

\* the store rejected the put of a tunnel, which cost an id of the VLAN
\* counter, and the attempt that followed completed the edge: bridge written
\* and driver called
EdgeCompletedAfterRejectedPut ==
    /\ EdgeBridgeKey("h1", "e1") \in DOMAIN db
    /\ ExtCalls(ext, "e1", "h1") > 0
    /\ db[EdgeTunnelKey("h1", "e1")].Vni = StartingVlanId + 1
    /\ EdgeTunnelKey("h2", "h1") \notin DOMAIN db

\* ------------------------------------------------------------------------
\* The static route of an edge
\* ------------------------------------------------------------------------

\* the description of the static route of the edge towards p
EdgeRouteDescription(p) == "IF_STATIC_ROUTE_" \o EdgeKind(p) \o "_" \o p

\* number of times the operation leading to d wrote the route of the edge
\* h -> p
RouteWrites(d, h, p) ==
    Cardinality({i \in DOMAIN d.ops :
                    /\ d.ops[i].key[1] = h
                    /\ d.ops[i].key[2] = "route"
                    /\ d.ops[i].val.Description = EdgeRouteDescription(p)})

\* the switch of the host holds no static route
NoRouteOn(store, h) == \A k \in DOMAIN store : ~(k[1] = h /\ k[2] = "route")

\* C26: the switch of a host that does not ask for static routes holds no
\* route; a WireSfcEntity call writes the route of an edge at most once, and
\* not at all when the host does not ask for it or when an earlier call has
\* written it
RouteWrittenOnceIfEnabled ==
    /\ \A h \in HostNames : ~Hosts[h].CreateVxlanStaticRoute => NoRouteOn(db, h)
    /\ \A sfc \in EdgeSfcs :
           Bind(WireSfcEntityOp(Begin(0), sfc), LAMBDA d :
               \A h \in HostNames : \A p \in Partners(h) :
                   RouteWrites(d, h, p) <=
                       IF Hosts[h].CreateVxlanStaticRoute /\ ~EdgeRouteWritten(db, h, p)
                       THEN 1 ELSE 0)

\* the route of h1 -> e1 is written and its chain can be wired again; the
\* edge of h2, which asks for no route, has its tunnel and its bridge
RouteWrittenAndEdgeWithoutRoute ==
    /\ EdgeRouteWritten(db, "h1", "e1")
    /\ EdgeBridgeKey("h1", "e1") \in DOMAIN db
    /\ EdgeBridgeKey("h2", "h1") \in DOMAIN db
    /\ ~EdgeRouteWritten(db, "h2", "h1")

\* ------------------------------------------------------------------------
\* Members of the bridge of an edge
\* ------------------------------------------------------------------------

\* the container elements of a chain
Containers(sfc) == {e \in SeqToSet(sfc.Elements) : IsContainer(e)}

\* the partner of a north-south VXLAN chain: its external entity or its
\* destination host
PartnerOf(sfc) ==
    {e.Container : e \in {x \in SeqToSet(sfc.Elements) :
                              x.Type \in {EXTERNAL_ENTITY, HOST_ENTITY}}}

\* the vswitch-end interfaces in the store of the containers that the chains
\* of the catalogue attach to host h over the edge h -> p
WiredOverEdge(store, h, p) ==
    UNION {VSwitchIfs(store, e) :
              e \in UNION {{x \in Containers(sfc) : x.EtcdVppSwitchKey = h} :
                              sfc \in {s \in BridgeSfcs : p \in PartnerOf(s)}}}

\* the bridge of every edge lists, once each, the tunnel of the edge and the
\* vswitch-end interfaces of the containers wired over the edge
BridgesExact(store) ==
    \A h \in HostNames : \A p \in Partners(h) :
        EdgeBridgeKey(h, p) \in DOMAIN store =>
            /\ NoDuplicates(store[EdgeBridgeKey(h, p)].Interfaces)
            /\ SeqToSet(store[EdgeBridgeKey(h, p)].Interfaces)
                   = {EdgeTunnelName(h, p)} \cup WiredOverEdge(store, h, p)

\* every container of the chain has its vswitch-end interface in the bridge
\* of its edge, next to the tunnel of the edge
ChainBridged(store, sfc) ==
    \A e \in Containers(sfc) : \A p \in PartnerOf(sfc) :
        /\ EdgeBridgeKey(e.EtcdVppSwitchKey, p) \in DOMAIN store
        /\ VSwitchIfs(store, e) # {}
        /\ VSwitchIfs(store, e) \cup {EdgeTunnelName(e.EtcdVppSwitchKey, p)}
               \subseteq SeqToSet(store[EdgeBridgeKey(e.EtcdVppSwitchKey, p)].Interfaces)

\* C27: after WireSfcEntity succeeded on a north-south VXLAN chain, the
\* bridge of the edge of each of its containers holds the tunnel of the edge
\* and the container's vswitch-end interface, and the bridge of every edge
\* holds exactly its tunnel and the vswitch-end interfaces of the containers
\* that any chain wired over the edge
EdgeBridgeHoldsTunnelAndContainers ==
    /\ BridgesExact(db)
    /\ \A sfc \in BridgeSfcs :
           Bind(WireSfcEntityOp(Begin(0), sfc), LAMBDA d :
               ~Failed(d) => ChainBridged(d.db, sfc) /\ BridgesExact(d.db))

\* two chains were wired over each edge: the bridge towards e1 holds the
\* tunnel and three containers, the bridge towards h2 the tunnel and two
EdgeBridgesShared ==
    /\ EdgeBridgeKey("h1", "e1") \in DOMAIN db
    /\ Len(db[EdgeBridgeKey("h1", "e1")].Interfaces) = 4
    /\ EdgeBridgeKey("h1", "h2") \in DOMAIN db
    /\ Len(db[EdgeBridgeKey("h1", "h2")].Interfaces) = 3

\* ------------------------------------------------------------------------
\* Auto-allocated container addresses
\* ------------------------------------------------------------------------

\* the container elements of the chain that declare no IPv4 address
AutoElements(sfc) ==
    {e \in SeqToSet(sfc.Elements) : IsContainer(e) /\ e.Ipv4Addr = NoIp}

\* the ip-id persisted for the element of the chain, 0 when there is none
PersistedIpId(idStore, sfc, e) ==
    LET k == SfcIdKey(sfc.Name, e.Container, e.PortLabel)
    IN IF k \in DOMAIN idStore.SFCIDs THEN idStore.SFCIDs[k].IpId ELSE 0

\* the container-side interface of the element holds an address of the
\* prefix of the chain, the one of the persisted ip-id when there is one
AutoAddressed(d0, d, sfc, e) ==
    \E a \in ContainerAddrs(d.db, e) :
        /\ a.net = sfc.SfcIpv4Prefix
        /\ PersistedIpId(d0.ids, sfc, e) # 0 => a.host = PersistedIpId(d0.ids, sfc, e)

\* C28: from every reachable state, after WireSfcEntity succeeded on a chain
\* of any type whose sfc_ipv4_prefix is set, the container-side interface of
\* every container element that declares no IPv4 holds an address of the
\* prefix, the one of its persisted ip-id when there is one
AutoAddressFromPrefix ==
    \A sfc \in IpSfcs :
        Bind(WireSfcEntityOp(Begin(0), sfc), LAMBDA d :
            ~Failed(d) =>
                \A e \in AutoElements(sfc) : AutoAddressed(Begin(0), d, sfc, e))

\* ------------------------------------------------------------------------
\* Pairing of the elements of a cross-connect chain
\* ------------------------------------------------------------------------

\* the name of the vswitch-end interface of a container element
VSwitchIfName(e) ==
    (IF IsMemIf(e) THEN "IF_MEMIF_VSWITCH_" ELSE "IF_AFPIF_VSWITCH_")
        \o e.Container \o "_" \o e.PortLabel

\* the cross-connects, as <<switch, rx, tx>>, of the pairs (e1, e2),
\* (e3, e4), ... of the chain, both directions of each
PairXConnects(sfc) ==
    UNION {LET a == sfc.Elements[2 * k - 1]
               b == sfc.Elements[2 * k]
           IN {<<b.EtcdVppSwitchKey, VSwitchIfName(b), VSwitchIfName(a)>>,
               <<b.EtcdVppSwitchKey, VSwitchIfName(a), VSwitchIfName(b)>>} :
           k \in 1..(Len(sfc.Elements) \div 2)}

\* the cross-connects, as <<switch, rx, tx>>, that the operation leading to
\* d wrote
XConnWrites(d) ==
    {<<d.ops[i].key[1], d.ops[i].val.ReceiveInterface, d.ops[i].val.TransmitInterface>> :
        i \in {j \in DOMAIN d.ops : d.ops[j].key[2] = "xconnect"}}

\* C29: from every reachable state WireSfcEntity of an SFC_EW_L2XCONN chain
\* of containers e1..en succeeds, the last element being paired or not, and
\* writes the cross-connects of the pairs (e1, e2), (e3, e4), ... and no
\* other; when the store rejects one of its puts it has written only
\* cross-connects of those pairs
XConnPairsInOrder ==
    \A sfc \in PairSfcs :
        /\ Bind(WireSfcEntityOp(Begin(0), sfc), LAMBDA d :
              ~Failed(d) /\ XConnWrites(d) = PairXConnects(sfc))
        /\ \A f \in 1..Puts(sfc) :
               XConnWrites(WireSfcEntityOp(Begin(f), sfc)) \subseteq PairXConnects(sfc)

\* the chain of five containers is wired: its two pairs are cross-connected
\* and its last element has its interface and no cross-connect
FiveWiredLastUnpaired ==
    \E sfc \in Named(PairSfcs, {"xc5"}) :
        /\ \A x \in PairXConnects(sfc) :
               /\ Key(x[1], "xconnect", x[2]) \in DOMAIN db
               /\ db[Key(x[1], "xconnect", x[2])].TransmitInterface = x[3]
        /\ Cardinality(PairXConnects(sfc)) = 4
        /\ Key("h1", "interface", VSwitchIfName(sfc.Elements[5])) \in DOMAIN db
        /\ Key("h1", "xconnect", VSwitchIfName(sfc.Elements[5])) \notin DOMAIN db

\* ------------------------------------------------------------------------
\* Repeated hops of an east-west memif chain
\* ------------------------------------------------------------------------

\* the east-west memif chains of memif containers that pair up
RepeatSfcs ==
    {sfc \in EwMemifSfcs :
        /\ Len(sfc.Elements) % 2 = 0
        /\ \A i \in DOMAIN sfc.Elements : IsMemIf(sfc.Elements[i])}

\* the container of the path left, vnfx-0, ..., vnfx-(N-1), right at
\* position k, counted from 0
PathContainer(sfc, left, right, k) ==
    IF k = 0 THEN left.Container
    ELSE IF k = sfc.VnfRepeatCount + 1 THEN right.Container
    ELSE VnfxName(k - 1)

\* the store and the bindings that the operation leading to d left hold
\* the memif pair of hop k of the path between the two elements: a master
\* interface under the port label of the left element and a slave interface
\* under the port label of the right one, with one memif id, the one bound
\* under the first end
HopWired(d, sfc, left, right, k) ==
    LET a == Key(PathContainer(sfc, left, right, k), "interface", left.PortLabel)
        b == Key(PathContainer(sfc, left, right, k + 1), "interface", right.PortLabel)
        i == SfcIdKey(sfc.Name, PathContainer(sfc, left, right, k), left.PortLabel)
    IN /\ a \in DOMAIN d.db /\ b \in DOMAIN d.db
       /\ d.db[a].Master /\ ~d.db[b].Master
       /\ d.db[a].MemifId = d.db[b].MemifId
       /\ i \in DOMAIN d.ids.SFCIDs
       /\ d.ids.SFCIDs[i].MemifId = d.db[a].MemifId

\* the interface records that the operation leading to d wrote
IfWrites(d) == {j \in DOMAIN d.ops : d.ops[j].key[2] = "interface"}

\* C30: from every reachable state, after WireSfcEntity on an east-west
\* memif chain with vnf_repeat_count N, every pair (element[i],
\* element[i+1]), i even, is joined by N+1 memif pairs and no more, along
\* element[i], vnfx-0, ..., vnfx-(N-1), element[i+1]; both interfaces of a
\* pair carry one memif id, the first is master and the second slave, and
\* the id is bound in SFCIDs under the first end
RepeatedHopsFormPath ==
    \A sfc \in RepeatSfcs :
        Bind(WireSfcEntityOp(Begin(0), sfc), LAMBDA d :
            /\ ~Failed(d)
            /\ Cardinality(IfWrites(d)) = Len(sfc.Elements) * (sfc.VnfRepeatCount + 1)
            /\ \A i \in 0..(Len(sfc.Elements) - 1) :
                   i % 2 = 0 =>
                       \A k \in 0..sfc.VnfRepeatCount :
                           HopWired(d, sfc, sfc.Elements[i + 1], sfc.Elements[i + 2], k))

\* ------------------------------------------------------------------------
\* Choice of the bridge of an east-west chain
\* ------------------------------------------------------------------------

\* the store keys of the default dynamic and static bridges of the host
DefaultBridgeKeys(h) ==
    {Key(h, "bd", "BD_INTERNAL_EW_" \o h), Key(h, "bd", "BD_INTERNAL_EW_L2FIB_" \o h)}

\* the store key of the bridge that the claim gives the element of the chain
ChosenBridgeKey(sfc, e) ==
    Key(e.EtcdVppSwitchKey, "bd",
        IF sfc.Type = SFC_EW_BD THEN "BD_INTERNAL_EW_" \o e.EtcdVppSwitchKey
        ELSE IF sfc.BdParms = "" THEN "BD_INTERNAL_EW_L2FIB_" \o e.EtcdVppSwitchKey
        ELSE "BD_INTERNAL_EW_" \o sfc.Name \o "_" \o e.EtcdVppSwitchKey)

\* the records of the store under the keys, nil for a key that is absent
RecordsAt(store, keys) ==
    [k \in keys |-> IF k \in DOMAIN store THEN <<store[k]>> ELSE <<>>]

\* every container of the chain is a member of the chosen bridge and of no
\* other
JoinedToChosenBridge(store, sfc) ==
    \A i \in DOMAIN sfc.Elements :
        LET e == sfc.Elements[i]
        IN BridgesOf(store, e.EtcdVppSwitchKey, VSwitchIfName(e)) = {ChosenBridgeKey(sfc, e)}

\* the bridge-domain records with no member that the operation leading to d
\* wrote: the bridges it created
BridgesCreated(d) ==
    {j \in DOMAIN d.ops : d.ops[j].key[2] = "bd" /\ d.ops[j].val.Interfaces = <<>>}

\* C31: from every reachable state, after WireSfcEntity succeeded on a
\* bridged east-west chain, its containers are members of the default
\* dynamic bridge of the host (SFC_EW_BD, with or without bd_parms), of the
\* default static bridge (SFC_EW_BD_L2FIB without bd_parms) or of the bridge
\* of the chain and host (SFC_EW_BD_L2FIB with bd_parms), and of no other;
\* a chain with bd_parms creates its bridge at most once, never again when
\* the state cache holds it, and leaves the records of the default bridges
\* and the host entry of the state cache as they were
EastWestBridgeChosen ==
    \A sfc \in BdSfcs \cup NamesakeSfcs :
        Bind(WireSfcEntityOp(Begin(0), sfc), LAMBDA d :
            ~Failed(d) =>
                /\ JoinedToChosenBridge(d.db, sfc)
                /\ (sfc.Type = SFC_EW_BD_L2FIB /\ sfc.BdParms # "") =>
                       /\ Cardinality(BridgesCreated(d)) <= 1
                       /\ sfc.Name \in DOMAIN cnpd.SFCToHEs => BridgesCreated(d) = {}
                       /\ d.c.HE = cnpd.HE
                       /\ RecordsAt(d.db, DefaultBridgeKeys("h1"))
                              = RecordsAt(db, DefaultBridgeKeys("h1")))

\* ------------------------------------------------------------------------
\* Wiring a chain twice
\* ------------------------------------------------------------------------

\* the chains of every type that are wired twice from every state
TwiceSfcs ==
    WireSfcs \cup OtherSfcs \cup NsVxlanSfcs \cup EwMemifSfcs \cup IpSfcs
    \cup BdSfcs \cup NamesakeSfcs \cup PairSfcs

\* the operation leading to d2 left the state cache, the counters, the
\* store and the bindings as the operation leading to d1 had left them
SameOutcome(d1, d2) ==
    /\ ~Failed(d2)
    /\ Collect(d2.c) = Collect(d1.c)
    /\ d2.c.seq = d1.c.seq
    /\ d2.db = d1.db
    /\ d2.ids = d1.ids

\* C32: from every reachable state, when WireSfcEntity succeeded on a chain,
\* a second WireSfcEntity on the same chain in the same driver succeeds and
\* leaves the state cache, the counters, the persisted bindings and the
\* content of every store key as they were after the first
WireSfcTwiceIsWireSfcOnce ==
    \A sfc \in TwiceSfcs :
        Bind(WireSfcEntityOp(Begin(0), sfc), LAMBDA d1 :
            ~Failed(d1) => SameOutcome(d1, WireSfcEntityOp(Again(d1), sfc)))

\* every chain that pairs up is wired by a first call and written again by
\* a second, and the chain over the edge h1 -> e1 is in the store already
EveryChainWiredTwice ==
    /\ Key("h1", "interface", "IF_MEMIF_VSWITCH_c1_p1") \in DOMAIN db
    /\ \A sfc \in TwiceSfcs :
           (sfc.Type = SFC_EW_MEMIF /\ Len(sfc.Elements) % 2 # 0)
           \/ Bind(WireSfcEntityOp(Begin(0), sfc), LAMBDA d1 :
                 /\ ~Failed(d1)
                 /\ WireSfcEntityOp(Again(d1), sfc).ops # <<>>)

\* ------------------------------------------------------------------------
\* Dispatch on the type of the chain
\* ------------------------------------------------------------------------

\* the ten values of SfcType other than SFC_UNKNOWN_TYPE
SfcTypes ==
    {SFC_NS_VXLAN, SFC_NS_NIC_BD, SFC_NS_NIC_L2XCONN, SFC_NS_NIC_VRF,
     SFC_EW_BD, SFC_EW_L2XCONN, SFC_EW_BD_L2FIB, SFC_EW_VRF_FIB,
     SFC_EW_MEMIF, SFC_EW_VETH}

\* one chain of two memif containers on host h1 for each type, named after
\* the type
TypedSfcs ==
    {SfcEntity(t, t, <<SfcElement("t1", "p1", "h1", VPP_CONTAINER_MEMIF),
                       SfcElement("t2", "p1", "h1", VPP_CONTAINER_MEMIF)>>) :
        t \in SfcTypes}

\* C33: from every reachable state, WireSfcEntity on a chain of any of the
\* ten types hands the chain to a wiring algorithm, which records it in the
\* entity cache first; no type takes the branch of the unknown type, which
\* returns an error and records nothing
EveryTypeDispatched ==
    \A sfc \in TypedSfcs : sfc.Name \in WireSfcEntityOp(Begin(0), sfc).c.SFCs

\* ------------------------------------------------------------------------
\* Rejected puts of bridges and vswitch-end interfaces
\* ------------------------------------------------------------------------

\* the write is the put of a bridge domain, of a vswitch-end memif or of an
\* af-packet interface
BridgeOrVSwitchIfPut(w) ==
    /\ w.sink = "store"
    /\ \/ w.key[2] = "bd"
       \/ /\ w.key[2] = "interface"
          /\ \/ w.val.Type = "AF_PACKET_INTERFACE"
             \/ w.val.Type = "MEMORY_INTERFACE" /\ w.val.Master

\* d0 is the operation with no put rejected and d the same operation with
\* its put number f rejected: d did not panic, and it returned an error
\* when the put is one of a bridge domain or of a vswitch-end interface
ErrorNotCrash(d0, d, f) ==
    /\ ~d.panic
    /\ BridgeOrVSwitchIfPut(d0.ops[f]) => d.err

\* C34: from every reachable state, whichever put the store rejects inside
\* WireInternalsForHostEntity or WireSfcEntity, the operation does not
\* panic on a field of the resource that was not created, and when the put
\* is the one of a bridge domain, of a vswitch-end memif or of an af-packet
\* interface it returns an error
RejectedPutIsErrorNotCrash ==
    /\ \A h \in HostNames :
           Bind(WireInternalsForHostEntityOp(Begin(0), h), LAMBDA d0 :
               \A f \in 1..d0.nput :
                   ErrorNotCrash(d0, WireInternalsForHostEntityOp(Begin(f), h), f))
    /\ \A sfc \in AttachSfcs :
           Bind(WireSfcEntityOp(Begin(0), sfc), LAMBDA d0 :
               \A f \in 1..d0.nput :
                   ErrorNotCrash(d0, WireSfcEntityOp(Begin(f), sfc), f))

\* ------------------------------------------------------------------------
\* Socket and id of the memif pairs
\* ------------------------------------------------------------------------

\* the store keys of the memif interfaces
MemifKeys(store) ==
    {k \in DOMAIN store : k[2] = "interface" /\ store[k].Type = "MEMORY_INTERFACE"}

\* no two memif interfaces of the same role, master or slave, are on one
\* socket with one memif id: no two pairs share both
MemifPairsApart(store) ==
    \A k1 \in MemifKeys(store), k2 \in MemifKeys(store) :
        (k1 # k2 /\ store[k1].Master = store[k2].Master)
            => \/ store[k1].SocketFilename # store[k2].SocketFilename
               \/ store[k1].MemifId # store[k2].MemifId

\* C35: in every state of one run no two memif pairs of the store are on the
\* same socket with the same memif id, the pairs of the vnfx hops of
\* different element pairs and of different chains included
MemifPairsNeverShareSocketAndId == MemifPairsApart(db)

\* ------------------------------------------------------------------------
\* Interface kind of a container element
\* ------------------------------------------------------------------------

\* a NIC VRF chain whose container is of the memif kind
VrfMemifSfcs ==
    {SfcEntity("vrfm", SFC_NS_NIC_VRF,
        <<SfcElement("h1", "Gig6", "", HOST_ENTITY),
          [SfcElement("v1", "p1", "h1", VPP_CONTAINER_MEMIF) EXCEPT
               !.Ipv4Addr = Ip("10.0.51", 8, 24),
               !.L3VrfRoutes = <<L3VRFRoute(0, "", Ip("10.0.51", 0, 24), Ip("10.0.51", 8, 0))>>]>>)}

\* the chains of every type whose containers are examined
KindSfcs == AttachSfcs \cup PairSfcs \cup BdSfcs \cup VrfMemifSfcs

\* the operation leading to d wrote a memif interface in the container
MemifWritten(d, e) ==
    \E j \in DOMAIN d.ops :
        /\ d.ops[j].key = Key(e.Container, "interface", e.PortLabel)
        /\ d.ops[j].val.Type = "MEMORY_INTERFACE"

\* the operation leading to d wrote a veth end or an af-packet interface
\* for the container
VethOrAfPacketWritten(d, e) ==
    \E j \in DOMAIN d.ops :
        \/ d.ops[j].key = Key(e.EtcdVppSwitchKey, "interface",
                              "IF_AFPIF_VSWITCH_" \o e.Container \o "_" \o e.PortLabel)
        \/ d.ops[j].key = Key(e.EtcdVppSwitchKey, "linuxif",
                              "IF_VETH_VNF_" \o e.Container \o "_" \o e.PortLabel)
        \/ d.ops[j].key = Key(e.EtcdVppSwitchKey, "linuxif",
                              "IF_VETH_VSWITCH_" \o e.Container \o "_" \o e.PortLabel)

\* C36: from every reachable state, after WireSfcEntity succeeded on a chain
\* of any type, it has written a memif interface and neither veth nor
\* af-packet interface for every element of a memif kind, and veth and
\* af-packet interfaces and no memif for every element of an af-packet kind
InterfaceKindFollowsElementKind ==
    \A sfc \in KindSfcs :
        Bind(WireSfcEntityOp(Begin(0), sfc), LAMBDA d :
            ~Failed(d) =>
                \A i \in DOMAIN sfc.Elements :
                    LET e == sfc.Elements[i]
                    IN /\ IsMemIf(e) => MemifWritten(d, e) /\ ~VethOrAfPacketWritten(d, e)
                       /\ IsAFP(e) => VethOrAfPacketWritten(d, e) /\ ~MemifWritten(d, e))

\* ------------------------------------------------------------------------
\* A cached tunnel of an edge
\* ------------------------------------------------------------------------

\* vlan_id values of the partner element: none, and two explicit ones
PartnerVlanIds == {0, 7, StartingVlanId}

\* the north-south VXLAN chains, their partner element carrying each of
\* the vlan_id values
VlanSfcs ==
    {[sfc EXCEPT !.Elements[1].VlanId = v] : sfc \in NsVxlanSfcs, v \in PartnerVlanIds}

\* the state cache c holds the tunnel of the edge h -> p
TunnelCached(c, h, p) ==
    IF p \in EENames
    THEN /\ h \in DOMAIN c.HEToEEs
         /\ p \in DOMAIN c.HEToEEs[h]
         /\ c.HEToEEs[h][p].vlanIf # <<>>
    ELSE /\ h \in DOMAIN c.HEToHEs
         /\ p \in DOMAIN c.HEToHEs[h]
         /\ c.HEToHEs[h][p].vlanIf # <<>>

\* the operation from d0 to d wrote no tunnel interface of the edge h -> p,
\* left its record and the persisted bindings as they were and did not
\* advance the VLAN counter
TunnelUntouched(d0, d, h, p) ==
    /\ \A j \in DOMAIN d.ops : d.ops[j].key # EdgeTunnelKey(h, p)
    /\ (EdgeTunnelKey(h, p) \in DOMAIN d0.db) = (EdgeTunnelKey(h, p) \in DOMAIN d.db)
    /\ EdgeTunnelKey(h, p) \in DOMAIN d0.db =>
           d.db[EdgeTunnelKey(h, p)].Vni = d0.db[EdgeTunnelKey(h, p)].Vni
    /\ d.ids.HE2EEIDs = d0.ids.HE2EEIDs
    /\ d.ids.HE2HEIDs = d0.ids.HE2HEIDs
    /\ d.c.seq.VLanID = d0.c.seq.VLanID

InvalidEENames ==
    {ee \in EENames : ~ExtEntities[ee].HostInterface \/ ~ExtEntities[ee].HostVxlan}

\* the north-south VXLAN chain of container c1 on host he to the external
\* entity ee
ChainTo(he, ee) ==
    SfcEntity("nsx", SFC_NS_VXLAN,
        <<SfcElement(ee, "", "", EXTERNAL_ENTITY),
          SfcElement("c1", "p1", he, VPP_CONTAINER_MEMIF)>>)

\* C38: from every reachable state, WireHostEntityToExternalEntity for an
\* external entity that lacks host_interface or host_vxlan returns an error
\* and leaves the driver as it was: no edge to it is recorded, the entity
\* cache does not hold it, and a north-south VXLAN chain that names it then
\* fails
RejectedEntityLeavesNoTrace ==
    \A he \in HostNames, ee \in InvalidEENames :
        Bind(WireHostEntityToExternalEntityOp(Begin(0), he, ee), LAMBDA d :
            /\ d.err
            /\ d.c = cnpd
            /\ d.db = db
            /\ d.ids = ids
            /\ ~EdgeRecorded(d.c.HEToEEs, he, ee)
            /\ ee \notin d.c.EEs
            /\ Failed(WireSfcEntityOp(Again(d), ChainTo(he, ee))))

\* ------------------------------------------------------------------------
\* Members of a bridge domain over time
\* ------------------------------------------------------------------------

\* the members of a bridge-domain record
BdMembers(bd) == SeqToSet(bd.Interfaces)

\* the members that the bridge of the j-th write of d held before it: those
\* of the latest earlier write of the operation to the same key, else those
\* of the record that the store held when the operation began
MembersBefore(d0, d, j) ==
    LET k == d.ops[j].key
        earlier == {i \in 1..(j - 1) : d.ops[i].key = k}
    IN IF earlier # {} THEN BdMembers(d.ops[Max(earlier)].val)
       ELSE IF k \in DOMAIN d0.db THEN BdMembers(d0.db[k])
       ELSE {}

\* no bridge-domain write of the operation from d0 to d omits a member that
\* the bridge held before
BdWritesKeepMembers(d0, d) ==
    \A j \in DOMAIN d.ops :
        d.ops[j].key[2] = "bd" => MembersBefore(d0, d, j) \subseteq BdMembers(d.ops[j].val)

\* the chains whose bridges are followed: those of every type that joins a
\* bridge, and two chains over the edge h1 -> e1
GrowSfcs == AttachSfcs \cup BdSfcs \cup Named(BridgeSfcs, {"nsb"})

\* C39: from every reachable state, no bridge-domain record that
\* WireInternalsForHostEntity or WireSfcEntity writes, the latter on a chain
\* and then on the same chain again, omits a member that the latest record
\* written under the same name on the same switch holds
BridgeMembersOnlyGrow ==
    /\ \A he \in HostNames :
           BdWritesKeepMembers(Begin(0), WireInternalsForHostEntityOp(Begin(0), he))
    /\ \A sfc \in GrowSfcs :
           Bind(WireSfcEntityOp(Begin(0), sfc), LAMBDA d1 :
               /\ BdWritesKeepMembers(Begin(0), d1)
               /\ ~Failed(d1) =>
                      BdWritesKeepMembers(d1, WireSfcEntityOp(Again(d1), sfc)))

\* ------------------------------------------------------------------------
\* Host interface name of the vSwitch end of a veth
\* ------------------------------------------------------------------------

\* IFNAMSIZ without the terminating character
MaxHostIfNameLen == 15

\* chains wired in one behaviour
MaxNamed == 2

\* container names and port labels of 1, 4, 5 and 7 characters
NameContainers == {"v", "vnf1", "vnfun", "vnfunc1"}

NamePorts == {"p", "port", "port1", "myport1"}

\* values of the veth counter after earlier allocations: the next id has one,
\* two, three or four digits in base 36
VethCounterValues == {0, 34, 35, 1294, 1295, 46654, 46655}

\* one chain per container name and port label, its only element an
\* af-packet container
NameSfcs ==
    {SfcEntity("n_" \o c \o "_" \o p, SFC_EW_L2XCONN,
         <<SfcElement(c, p, "h1", NON_VPP_CONTAINER_AFP)>>) :
     c \in NameContainers, p \in NamePorts}

\* a driver whose veth counter was advanced by earlier allocations
InitName ==
    /\ \E v \in VethCounterValues :
           cnpd = [NewSfcCtlrL2CNPDriver EXCEPT !.seq.VethID = v]
    /\ db = EmptyMap
    /\ ids = EmptyIds
    /\ ipam = EmptyMap
    /\ ext = <<>>
    /\ panicked = FALSE
    /\ restarts = 0
    /\ cycles = 0
    /\ run = ApiRun

\* Wiring of af-packet containers of every name length
NextName ==
    \E sfc \in NameSfcs :
        /\ Cardinality(cnpd.SFCs \cup {sfc.Name}) <= MaxNamed
        /\ WireSfcEntity(sfc, 0)

SpecName == InitName /\ [][NextName]_vars

\* the records of the vSwitch ends of the veth pairs in the store
VSwitchVeths(store) ==
    {store[k] : k \in {x \in DOMAIN store :
         /\ x[2] = "linuxif"
         /\ \E c \in NameContainers, p \in NamePorts :
                x[3] = "IF_VETH_VSWITCH_" \o c \o "_" \o p}}

\* C40: in every reachable state the host interface name of the vSwitch end
\* of every veth pair, built by constructBaseHostName from the container
\* name, the port label and the veth id in base 36, has at most 15 characters
HostIfNameFits ==
    \A r \in VSwitchVeths(db) : Len(r.HostIfName) <= MaxHostIfNameLen

====
